---- MODULE Spec2Model ----
(***************************************************************************)
(* Quantity-surveying engine of the HRT concrete tracker (src/utils.ts)    *)
(* and the parts of the host application that call it.                     *)
(*                                                                         *)
(* Numbers.  The source computes with IEEE doubles; the model computes     *)
(* with exact integers on scaled grids, so floating-point noise is not     *)
(* part of the model:                                                      *)
(*   - a chainage is a whole number of grid units.  For the excavation     *)
(*     profile one unit is half a millimetre, which makes the source's     *)
(*     exact-match tolerance of 0.001 m equal to CH_TOL = 2 units;         *)
(*   - a design quantity is a whole number of fine units, FINE_PER_MILLI   *)
(*     of which make 0.001 m3 (the precision of toFixed(3));               *)
(*   - an excavation area is a multiple of AreaUnit, chosen so that every  *)
(*     linear interpolation between two grid chainages is exact.           *)
(*                                                                         *)
(* src/constants.ts is not among the sources: the tables it exports are    *)
(* modelled from the specification's data model (section 3).               *)
(***************************************************************************)
EXTENDS Integers, Sequences, FiniteSets, TLC

(***************************************************************************)
(* Bounds of the model.                                                    *)
(***************************************************************************)
\* at most this many logged entries
MaxEntries == 3
\* survey chainages range over 0..MaxSurveyCh
MaxSurveyCh == 6
\* at most this many survey override points
MaxSurvey == 2

(***************************************************************************)
(* State.                                                                  *)
(***************************************************************************)
VARIABLES
  design,           \* the last design-volume comparison made: arguments and results
  entries,          \* the logged entries (App's `entries` state), in snapshot order
  coverage,         \* what the host derives from `entries`: merged ranges, union length
  EXCAVATION_DATA,  \* the original survey dataset of the build (never changes)
  surveyOverrides,  \* the re-survey points, in the order the caller holds them
  profile,          \* the last profile query: its chainage and its result
  volume,           \* the last expected-volume computation: its range and its result
  calc,             \* DataEntry's `calc` memo: the volumes of the range in the form
  prior,            \* the last prior-volume apportionment: its arguments and its result
  forecast,         \* App's `forecast` memo: the ForecastSummary of `entries`
  range,            \* the three volumes last computed for one and the same range
  callerRanges,     \* a caller's own list of interval objects (argument of mergeRanges)
  mergeCall,        \* the last call of mergeRanges on `callerRanges`: argument and result
  chainage,         \* the last chainage formatted and parsed back
  bulk,             \* DataEntry's bulk paste: its text and what the submit made of it
  docs,             \* the "batches" collection of the store: document id -> record
  activeTab,        \* App's `activeTab` state
  editingEntryId,   \* App's `editingEntryId` state: {} is null, {id} an id
  pending,          \* calls of handleSave / handleImport suspended at their await
  uuid,             \* the number of ids crypto.randomUUID has handed out
  split,            \* the last gross volumes computed for a range and for its two parts
  masonryView       \* the masonry deduction the consumers derived for one entry

vars == << design, entries, coverage, EXCAVATION_DATA, surveyOverrides, profile,
           volume, calc, prior, forecast, range, callerRanges, mergeCall, chainage, bulk,
           docs, activeTab, editingEntryId, pending, uuid, split, masonryView >>

\* the state of the host application's capture layer
hostVars == << callerRanges, mergeCall, chainage, bulk, docs, activeTab, editingEntryId,
               pending, uuid, split, masonryView >>

(***************************************************************************)
(* Arithmetic helpers.                                                     *)
(***************************************************************************)
Min(a, b) == IF a < b THEN a ELSE b

Max(a, b) == IF a > b THEN a ELSE b

Abs(a) == IF a < 0 THEN -a ELSE a

\* 0.001 m3 in fine quantity units
FINE_PER_MILLI == 10

\* mutant of ToFixed3: the next multiple of 0.001 above x is taken
ToFixed3RoundUp(x) == ((x \div FINE_PER_MILLI) + 1) * FINE_PER_MILLI

\* Number.prototype.toFixed(3) followed by parseFloat: the nearest multiple
\* of 0.001, the larger one on a tie (x >= 0).
ToFixed3(x) == ((2 * x + FINE_PER_MILLI) \div (2 * FINE_PER_MILLI)) * FINE_PER_MILLI

(***************************************************************************)
(* Chainage Design Index (constants.ts, modelled from the specification).  *)
(***************************************************************************)
ConcreteStep == {"Invert", "Kicker", "Gantry", "Total Sum"}

RockClass == {"III", "IV", "VA", "VB"}

\* the length of the alignment, in grid units
TOTAL_TUNNEL_LENGTH == 3

\* per grid unit of length, in fine quantity units; total = invert+kicker+gantry
ROCK_CLASS_DESIGN_DATA ==
  [III |-> [invert |-> 4, kicker |-> 3, gantry |-> 7, total |-> 14],
   IV  |-> [invert |-> 4, kicker |-> 6, gantry |-> 8, total |-> 18],
   VA  |-> [invert |-> 5, kicker |-> 2, gantry |-> 9, total |-> 16],
   VB  |-> [invert |-> 6, kicker |-> 6, gantry |-> 6, total |-> 18]]

\* ordered segments partitioning [0, TOTAL_TUNNEL_LENGTH]
INITIAL_CHAINAGE_MAP ==
  << [from |-> 0, to |-> 2, rockClass |-> "III"],
     [from |-> 2, to |-> TOTAL_TUNNEL_LENGTH, rockClass |-> "VA"] >>

(***************************************************************************)
(* calculateDesignQty (src/utils.ts).                                      *)
(***************************************************************************)
\* the switch over step; a step outside the four cases leaves unitArea 0
UnitArea(data, step) ==
  CASE step = "Invert"    -> data.invert
    [] step = "Kicker"    -> data.kicker
    [] step = "Gantry"    -> data.gantry
    [] step = "Total Sum" -> data.total
    [] OTHER              -> 0

\* mutant of SegmentQty: the overlap is measured to the end of the segment
SegmentQtyWholeSegment(segment, start, end, step) ==
  LET overlapStart == Max(start, segment.from)
      overlapEnd   == Min(end, segment.to)
  IN  IF overlapStart < overlapEnd
      THEN (segment.to - overlapStart)
             * UnitArea(ROCK_CLASS_DESIGN_DATA[segment.rockClass], step)
      ELSE 0

\* one iteration of the forEach: what segment adds to totalQty
SegmentQty(segment, start, end, step) ==
  LET overlapStart == Max(start, segment.from)
      overlapEnd   == Min(end, segment.to)
  IN  IF overlapStart < overlapEnd
      THEN (overlapEnd - overlapStart)
             * UnitArea(ROCK_CLASS_DESIGN_DATA[segment.rockClass], step)
      ELSE 0

RECURSIVE DesignQtySum(_, _, _, _)
DesignQtySum(i, start, end, step) ==
  IF i > Len(INITIAL_CHAINAGE_MAP) THEN 0
  ELSE SegmentQty(INITIAL_CHAINAGE_MAP[i], start, end, step)
         + DesignQtySum(i + 1, start, end, step)

calculateDesignQty(from, to, step) ==
  ToFixed3(DesignQtySum(1, Min(from, to), Max(from, to), step))

(***************************************************************************)
(* Excavation profile: interpolateFromSet and getExcavationProfile         *)
(* (src/utils.ts).  `number | null` is modelled as a set: {} is null and   *)
(* {a} is the number a.                                                    *)
(***************************************************************************)
\* 0.001 m, the exact-match tolerance, in chainage units of half a millimetre
CH_TOL == 2

RECURSIVE Factorial(_)
Factorial(n) == IF n <= 1 THEN 1 ELSE n * Factorial(n - 1)

\* areas are multiples of AreaUnit: every difference of two grid chainages
\* divides it, so interpolated areas are whole numbers
AreaUnit == Factorial(MaxSurveyCh)

\* mutant of Near: the exact match made without the tolerance
NearStrict(p, targetCh) == p.chainage = targetCh

\* Math.abs(p.chainage - targetCh) < 0.001
Near(p, targetCh) == Abs(p.chainage - targetCh) < CH_TOL

\* dataset.find(p => ...): the position of the first match, 0 for undefined
RECURSIVE FindExact(_, _, _)
FindExact(dataset, targetCh, i) ==
  IF i > Len(dataset) THEN 0
  ELSE IF Near(dataset[i], targetCh) THEN i
       ELSE FindExact(dataset, targetCh, i + 1)

\* the loop over neighbours: the first i with
\* dataset[i].chainage <= targetCh <= dataset[i+1].chainage, 0 if the loop ends
RECURSIVE FindSurrounding(_, _, _)
FindSurrounding(dataset, targetCh, i) ==
  IF i > Len(dataset) - 1 THEN 0
  ELSE IF dataset[i].chainage <= targetCh /\ dataset[i + 1].chainage >= targetCh
       THEN i
       ELSE FindSurrounding(dataset, targetCh, i + 1)

\* p1.area + (p2.area - p1.area) * ratio
LinearInterpolation(p1, p2, targetCh) ==
  p1.area + ((p2.area - p1.area) * (targetCh - p1.chainage))
              \div (p2.chainage - p1.chainage)

interpolateFromSet(targetCh, dataset) ==
  IF Len(dataset) = 0 THEN {}
  ELSE LET minCh == dataset[1].chainage
           maxCh == dataset[Len(dataset)].chainage
       IN  IF targetCh < minCh \/ targetCh > maxCh THEN {}
           ELSE LET exact == FindExact(dataset, targetCh, 1)
                    i     == FindSurrounding(dataset, targetCh, 1)
                IN  IF exact # 0 THEN { dataset[exact].area }
                    ELSE IF i # 0
                         THEN { LinearInterpolation(dataset[i], dataset[i + 1], targetCh) }
                         ELSE {}

\* the number in a non-null result
Value(s) == CHOOSE a \in s : TRUE

\* mutant of ClampToNearest: the two boundary points are swapped
ClampToFarthest(ch) ==
  IF ch < EXCAVATION_DATA[1].chainage
  THEN [area |-> EXCAVATION_DATA[Len(EXCAVATION_DATA)].area, isResurvey |-> FALSE]
  ELSE [area |-> EXCAVATION_DATA[1].area, isResurvey |-> FALSE]

\* the extreme fallback of getExcavationProfile
ClampToNearest(ch) ==
  IF ch < EXCAVATION_DATA[1].chainage
  THEN [area |-> EXCAVATION_DATA[1].area, isResurvey |-> FALSE]
  ELSE [area |-> EXCAVATION_DATA[Len(EXCAVATION_DATA)].area, isResurvey |-> FALSE]

getExcavationProfile(ch, surveyPoints) ==
  LET surveyArea == IF Len(surveyPoints) > 1
                    THEN interpolateFromSet(ch, surveyPoints) ELSE {}
      origArea   == interpolateFromSet(ch, EXCAVATION_DATA)
  IN  IF surveyArea # {} THEN [area |-> Value(surveyArea), isResurvey |-> TRUE]
      ELSE IF origArea # {} THEN [area |-> Value(origArea), isResurvey |-> FALSE]
      ELSE ClampToNearest(ch)

(***************************************************************************)
(* calculateExpectedConcreteVolume (src/utils.ts) and the net survey volume *)
(* of DataEntry's `calc` memo (src/unnamed/part_001).  A volume is an area  *)
(* times a number of chainage units.                                       *)
(***************************************************************************)
\* constants.ts, modelled from the specification: 30.0 m2 and 0.15 m3/m
DEFAULT_RATES ==
  [FINISHED_INNER_AREA |-> 30 * AreaUnit,
   SHOTCRETE_DEDUCTION |-> (15 * AreaUnit) \div 100]

\* the chainages of dataset strictly inside (start, end)
ChainagesInside(dataset, start, end) ==
  { dataset[k].chainage :
      k \in { j \in 1 .. Len(dataset) :
                dataset[j].chainage > start /\ dataset[j].chainage < end } }

\* the Set of integration points
RelevantPoints(start, end, surveyPoints) ==
  {start, end} \cup ChainagesInside(EXCAVATION_DATA, start, end)
               \cup ChainagesInside(surveyPoints, start, end)

\* Array.from(set).sort((a, b) => a - b)
RECURSIVE SortAscending(_)
SortAscending(S) ==
  IF S = {} THEN << >>
  ELSE LET m == CHOOSE x \in S : \A y \in S : x <= y
       IN  << m >> \o SortAscending(S \ {m})

\* Math.max(0, p.area - FINISHED_INNER_AREA)
Fill(area) == Max(0, area - DEFAULT_RATES.FINISHED_INNER_AREA)

\* the trapezoid of one slice; fill areas are even numbers, so the half is exact
SliceVol(p1, p2, dist) == ((Fill(p1.area) + Fill(p2.area)) \div 2) * dist

\* what one slice adds to totalShotcreteDeduction
SliceShotcrete(p1, p2, dist) ==
  LET isSegmentResurveyed == p1.isResurvey /\ p2.isResurvey
  IN  IF ~isSegmentResurveyed THEN dist * DEFAULT_RATES.SHOTCRETE_DEDUCTION ELSE 0

\* the for loop over consecutive integration points, from position i on
RECURSIVE IntegrateSlices(_, _, _)
IntegrateSlices(sortedCh, i, surveyPoints) ==
  IF i > Len(sortedCh) - 1 THEN [gross |-> 0, shotcrete |-> 0]
  ELSE LET c1   == sortedCh[i]
           c2   == sortedCh[i + 1]
           dist == c2 - c1
           p1   == getExcavationProfile(c1, surveyPoints)
           p2   == getExcavationProfile(c2, surveyPoints)
           rest == IntegrateSlices(sortedCh, i + 1, surveyPoints)
       IN  [gross     |-> SliceVol(p1, p2, dist) + rest.gross,
            shotcrete |-> SliceShotcrete(p1, p2, dist) + rest.shotcrete]

calculateExpectedConcreteVolume(from, to, surveyPoints) ==
  LET start == Min(from, to)
      end   == Max(from, to)
  IN  IF start = end THEN [gross |-> 0, shotcrete |-> 0]
      ELSE IntegrateSlices(SortAscending(RelevantPoints(start, end, surveyPoints)),
                           1, surveyPoints)

calculateGrossConcreteVolume(from, to) ==
  calculateExpectedConcreteVolume(from, to, << >>).gross

\* parseFloat(formData.stoneMasonry) || 0; the parsed field is {} for NaN
MasonryDec(stoneMasonry) ==
  IF stoneMasonry = {} \/ Value(stoneMasonry) = 0 THEN 0 ELSE Value(stoneMasonry)

\* mutant of NetSurvey: the difference is not floored at zero
NetSurveyRaw(grossVol, shotcreteDec, masonryDec) ==
  grossVol - shotcreteDec - masonryDec

\* Math.max(0, grossVol - shotcreteDec - masonryDec)
NetSurvey(grossVol, shotcreteDec, masonryDec) ==
  Max(0, grossVol - shotcreteDec - masonryDec)

\* formData.step === GANTRY ? SUM : formData.step
DesignStep(step) == IF step = "Gantry" THEN "Total Sum" ELSE step

\* the `calc` memo of DataEntry for the parsed form fields
DataEntryCalc(fromVal, toVal, stoneMasonry, step) ==
  LET length == Abs(toVal - fromVal)
  IN  IF length <= 0 THEN [gross |-> 0, netSurvey |-> 0, design |-> 0]
      ELSE LET grossVol     == calculateGrossConcreteVolume(fromVal, toVal)
               shotcreteDec == DEFAULT_RATES.SHOTCRETE_DEDUCTION * length
               masonryDec   == MasonryDec(stoneMasonry)
           IN  [gross        |-> grossVol,
                netSurvey    |-> NetSurvey(grossVol, shotcreteDec, masonryDec),
                design       |-> calculateDesignQty(fromVal, toVal, DesignStep(step)),
                shotcreteDec |-> shotcreteDec,
                masonryDec   |-> masonryDec]

(***************************************************************************)
(* mergeRanges and calculateUnionLength (src/utils.ts).                    *)
(*                                                                         *)
(* mergeRanges copies the array, not the interval objects: `merged` holds  *)
(* the caller's own objects and `current.end = ...` writes into them.  The *)
(* model therefore keeps the caller's objects in `objs` (the input list,   *)
(* by position) and lets `sorted` and `merged` hold positions of it.       *)
(***************************************************************************)
\* mutant of InsertByStart: a sort that is not stable (ties end up reversed)
RECURSIVE InsertByStartUnstable(_, _, _)
InsertByStartUnstable(objs, sortedIdx, k) ==
  IF sortedIdx = << >> THEN << k >>
  ELSE IF objs[Head(sortedIdx)].start < objs[k].start
       THEN << Head(sortedIdx) >> \o InsertByStartUnstable(objs, Tail(sortedIdx), k)
       ELSE << k >> \o sortedIdx

\* Array.prototype.sort with (a, b) => a.start - b.start is stable: k goes
\* behind every element whose start is not larger
RECURSIVE InsertByStart(_, _, _)
InsertByStart(objs, sortedIdx, k) ==
  IF sortedIdx = << >> THEN << k >>
  ELSE IF objs[Head(sortedIdx)].start <= objs[k].start
       THEN << Head(sortedIdx) >> \o InsertByStart(objs, Tail(sortedIdx), k)
       ELSE << k >> \o sortedIdx

\* [...ranges].sort(...): the positions 1..n of ranges, ordered by start
RECURSIVE SortByStart(_, _)
SortByStart(objs, n) ==
  IF n = 0 THEN << >> ELSE InsertByStart(objs, SortByStart(objs, n - 1), n)

\* mutant of Overlaps: touching intervals merge too
OverlapsOrTouches(next, current) == next.start <= current.end

\* the test of the sweep: next.start < current.end
Overlaps(next, current) == next.start < current.end

\* mutant of MergedEnd: the later interval's end replaces the running end
MergedEndNext(current, next) == next.end

\* the end a merge gives the running interval
MergedEnd(current, next) == Max(current.end, next.end)

\* the for loop from position i of sorted on
RECURSIVE MergeSweep(_, _, _, _)
MergeSweep(objs, sorted, merged, i) ==
  IF i > Len(sorted) THEN [objs |-> objs, merged |-> merged]
  ELSE LET next    == sorted[i]
           current == merged[Len(merged)]
       IN  IF Overlaps(objs[next], objs[current])
           THEN MergeSweep([objs EXCEPT ![current].end = MergedEnd(objs[current], objs[next])],
                           sorted, merged, i + 1)
           ELSE MergeSweep(objs, sorted, Append(merged, next), i + 1)

\* one call of mergeRanges: the caller's objects after it, and the positions returned
MergeRun(ranges) ==
  IF Len(ranges) = 0 THEN [objs |-> ranges, merged |-> << >>]
  ELSE LET sorted == SortByStart(ranges, Len(ranges))
       IN  MergeSweep(ranges, sorted, << sorted[1] >>, 2)

\* the list mergeRanges returns
mergeRanges(ranges) ==
  LET r == MergeRun(ranges)
  IN  [k \in 1 .. Len(r.merged) |-> r.objs[r.merged[k]]]

\* mutant of EntryInterval: the chainage pair is not normalized
EntryIntervalRaw(e) == [start |-> e.fromChainage, end |-> e.toChainage]

\* the interval of an entry: (min, max) of its chainage pair
EntryInterval(e) ==
  [start |-> Min(e.fromChainage, e.toChainage),
   end   |-> Max(e.fromChainage, e.toChainage)]

\* entries.map(e => ({start, end})): fresh interval objects
Intervals(es) == [k \in 1 .. Len(es) |-> EntryInterval(es[k])]

\* merged.reduce((acc, curr) => acc + (curr.end - curr.start), 0)
RECURSIVE SumLengths(_)
SumLengths(ranges) ==
  IF ranges = << >> THEN 0
  ELSE SumLengths(Tail(ranges)) + (Head(ranges).end - Head(ranges).start)

calculateUnionLength(es) ==
  IF Len(es) = 0 THEN 0 ELSE SumLengths(mergeRanges(Intervals(es)))

(***************************************************************************)
(* calculatePriorConcreteVolume (src/utils.ts).  A double that is not a    *)
(* finite number (NaN, Infinity) is modelled as {} and the finite number q *)
(* as {q}; the batch lengths the function divides by are recorded.         *)
(***************************************************************************)
\* a / b; quantities are multiples of every batch length, so a finite
\* quotient is exact
Divide(a, b) == IF b = 0 THEN {} ELSE { a \div b }

\* a * b where a may be not finite
Times(a, b) == IF a = {} THEN {} ELSE { Value(a) * b }

\* a + b where either may be not finite
Plus(a, b) == IF a = {} \/ b = {} THEN {} ELSE { Value(a) + Value(b) }

\* allEntries.filter(e => e.step === stepToFind)
RECURSIVE RelevantBatches(_, _)
RelevantBatches(allEntries, stepToFind) ==
  IF allEntries = << >> THEN << >>
  ELSE (IF Head(allEntries).step = stepToFind THEN << Head(allEntries) >> ELSE << >>)
         \o RelevantBatches(Tail(allEntries), stepToFind)

\* mutant of HasOverlap: an overlap of length zero counts
HasOverlapOrTouch(overlapStart, overlapEnd) == overlapStart <= overlapEnd

\* the overlap check: overlapStart < overlapEnd
HasOverlap(overlapStart, overlapEnd) == overlapStart < overlapEnd

\* mutant of BatchShare: the batch's whole quantity is taken
BatchShareWhole(actualQty, batchLen, overlapLen) == { actualQty }

\* linearDensity * overlapLen with linearDensity = batch.actualQty / batchLen
BatchShare(actualQty, batchLen, overlapLen) ==
  Times(Divide(actualQty, batchLen), overlapLen)

\* one iteration of the forEach: what batch adds to totalVolumeFound, and
\* the lengths it divides by
BatchContribution(batch, targetStart, targetEnd) ==
  LET batchStart   == Min(batch.fromChainage, batch.toChainage)
      batchEnd     == Max(batch.fromChainage, batch.toChainage)
      batchLen     == batchEnd - batchStart
      overlapStart == Max(targetStart, batchStart)
      overlapEnd   == Min(targetEnd, batchEnd)
  IN  IF HasOverlap(overlapStart, overlapEnd)
      THEN [total    |-> BatchShare(batch.actualQty, batchLen, overlapEnd - overlapStart),
            divisors |-> { batchLen }]
      ELSE [total |-> {0}, divisors |-> {}]

RECURSIVE SumBatches(_, _, _)
SumBatches(batches, targetStart, targetEnd) ==
  IF batches = << >> THEN [total |-> {0}, divisors |-> {}]
  ELSE LET c    == BatchContribution(Head(batches), targetStart, targetEnd)
           rest == SumBatches(Tail(batches), targetStart, targetEnd)
       IN  [total    |-> Plus(c.total, rest.total),
            divisors |-> c.divisors \cup rest.divisors]

calculatePriorConcreteVolume(targetFrom, targetTo, stepToFind, allEntries) ==
  LET targetStart == Min(targetFrom, targetTo)
      targetEnd   == Max(targetFrom, targetTo)
      targetLen   == targetEnd - targetStart
  IN  IF targetLen <= 0 THEN [total |-> {0}, divisors |-> {}]
      ELSE SumBatches(RelevantBatches(allEntries, stepToFind), targetStart, targetEnd)

(***************************************************************************)
(* App.totals and App.forecast (src/App.tsx).  A ratio of two quantities   *)
(* is kept as the fraction [n, d]; d = 0 stands for a double that is not a *)
(* finite number.  Fractions are compared by cross-multiplication, so      *)
(* nothing is divided in the model.                                        *)
(***************************************************************************)
Frac(n, d) == [n |-> n, d |-> d]

RatLe(a, b) == a.n * b.d <= b.n * a.d

RatEq(a, b) == a.n * b.d = b.n * a.d

RatMin(a, b) == IF RatLe(a, b) THEN a ELSE b

RatMax(a, b) == IF RatLe(a, b) THEN b ELSE a

\* entries.filter(e => e.step === ConcreteStep.GANTRY)
gantryEntries(es) == RelevantBatches(es, "Gantry")

\* curr.cumulativeActualQty || curr.actualQty: an absent field ({}) and a
\* zero are both falsy
CumulativeOrActual(e) ==
  IF e.cumulativeActualQty = {} \/ Value(e.cumulativeActualQty) = 0
  THEN e.actualQty
  ELSE Value(e.cumulativeActualQty)

\* mutant of SumCumulative: the first entry's quantity is taken for the
\* running total
SumCumulativeFirst(es) ==
  IF es = << >> THEN 0 ELSE CumulativeOrActual(Head(es))

RECURSIVE SumCumulative(_)
SumCumulative(es) ==
  IF es = << >> THEN 0 ELSE CumulativeOrActual(Head(es)) + SumCumulative(Tail(es))

RECURSIVE SumActual(_)
SumActual(es) ==
  IF es = << >> THEN 0 ELSE Head(es).actualQty + SumActual(Tail(es))

\* totals.actual
totalActualPoured(es) ==
  IF Len(gantryEntries(es)) > 0 THEN SumCumulative(gantryEntries(es)) ELSE SumActual(es)

\* totals.progress
progress(es) == calculateUnionLength(gantryEntries(es))

RECURSIVE SumSegments(_)
SumSegments(i) ==
  IF i > Len(INITIAL_CHAINAGE_MAP) THEN 0
  ELSE (INITIAL_CHAINAGE_MAP[i].to - INITIAL_CHAINAGE_MAP[i].from)
         * ROCK_CLASS_DESIGN_DATA[INITIAL_CHAINAGE_MAP[i].rockClass].total
       + SumSegments(i + 1)

totalProjectDesignVolume == SumSegments(1)

\* mergedRanges.forEach(range => completedDesign += calculateDesignQty(...))
RECURSIVE SumDesign(_)
SumDesign(mergedRanges) ==
  IF mergedRanges = << >> THEN 0
  ELSE calculateDesignQty(Head(mergedRanges).start, Head(mergedRanges).end, "Total Sum")
         + SumDesign(Tail(mergedRanges))

\* mutant of HasCompletedDesign: the division is made for a zero design volume too
HasCompletedDesignOrZero(completedDesign) == completedDesign >= 0

\* the guard of the division: completedDesign > 0
HasCompletedDesign(completedDesign) == completedDesign > 0

\* mutant of safeRate: the rate is used as it is
unclampedRate(currentOverbreakRate) == currentOverbreakRate

\* Math.max(0.8, Math.min(currentOverbreakRate, 2.0))
safeRate(currentOverbreakRate) ==
  RatMax(Frac(8, 10), RatMin(currentOverbreakRate, Frac(2, 1)))

\* mutant of RemainingLength: the difference is not floored at zero
RemainingLengthRaw(unionLength) == TOTAL_TUNNEL_LENGTH - unionLength

\* Math.max(0, TOTAL_TUNNEL_LENGTH - totals.progress)
RemainingLength(unionLength) == Max(0, TOTAL_TUNNEL_LENGTH - unionLength)

\* the ForecastSummary of a snapshot of entries
Forecast(es) ==
  LET mergedRanges    == mergeRanges(Intervals(gantryEntries(es)))
      completedDesign == SumDesign(mergedRanges)
      completedActual == totalActualPoured(es)
      remainingDesign == Max(0, totalProjectDesignVolume - completedDesign)
      currentOverbreakRate ==
        IF HasCompletedDesign(completedDesign)
        THEN Frac(completedActual, completedDesign)
        ELSE Frac(105, 100)
      rate               == safeRate(currentOverbreakRate)
      forecastToComplete == Frac(remainingDesign * rate.n, rate.d)
  IN  [totalProjectScope    |-> totalProjectDesignVolume,
       completedDesign      |-> completedDesign,
       completedActual      |-> completedActual,
       remainingLength      |-> RemainingLength(progress(es)),
       remainingDesign      |-> remainingDesign,
       currentOverbreakRate |-> currentOverbreakRate,
       forecastToComplete   |-> forecastToComplete,
       projectedGrandTotal  |->
         Frac(completedActual * forecastToComplete.d + forecastToComplete.n,
              forecastToComplete.d)]

(***************************************************************************)
(* Chainage text (src/utils.ts: formatChainage, parseChainage) and the     *)
(* parseFloat of the platform.  A text is a sequence of characters.  A     *)
(* number read from or written to a text is a whole count of thousandths   *)
(* of a metre; a double that is not a number (NaN) is {} and the number q  *)
(* is {q}.  The texts of the model carry at most three fraction digits and *)
(* neither an exponent nor the word Infinity.                              *)
(***************************************************************************)
\* thousandths in one unit (the resolution of the numbers of a text)
MILLI == 1000

\* metres in one kilometre: the 1000 of formatChainage and parseChainage
KM == 1000

Digits == << "0", "1", "2", "3", "4", "5", "6", "7", "8", "9" >>

DigitChars == { Digits[i] : i \in 1 .. Len(Digits) }

\* \s
WhitespaceChars == { " " }

DigitValue(c) == (CHOOSE i \in 1 .. Len(Digits) : Digits[i] = c) - 1

\* the decimal digits of a natural number
RECURSIVE NatToText(_)
NatToText(n) ==
  IF n < 10 THEN << Digits[n + 1] >>
  ELSE Append(NatToText(n \div 10), Digits[(n % 10) + 1])

\* the natural number a run of digits denotes (0 for the empty run)
RECURSIVE DigitsToNat(_)
DigitsToNat(ds) ==
  IF ds = << >> THEN 0
  ELSE DigitsToNat(SubSeq(ds, 1, Len(ds) - 1)) * 10 + DigitValue(ds[Len(ds)])

\* the thousandths a run of fraction digits denotes
FractionToMilli(ds) ==
  LET d(i) == IF i <= Len(ds) THEN DigitValue(ds[i]) ELSE 0
  IN  d(1) * 100 + d(2) * 10 + d(3)

\* the longest prefix of a text made of characters of S
RECURSIVE TakeWhile(_, _)
TakeWhile(t, S) ==
  IF t = << >> \/ Head(t) \notin S THEN << >>
  ELSE << Head(t) >> \o TakeWhile(Tail(t), S)

\* the longest run of digits a text starts with
TakeDigits(t) == TakeWhile(t, DigitChars)

\* the text without its leading whitespace
TrimStart(t) == SubSeq(t, Len(TakeWhile(t, WhitespaceChars)) + 1, Len(t))

\* parseFloat: leading whitespace is skipped, then the longest prefix that
\* is a decimal literal is read (sign, digits, point, digits) and whatever
\* follows it is ignored; NaN if there is no such prefix
parseFloat(t) ==
  LET s0       == TrimStart(t)
      signed   == s0 # << >> /\ Head(s0) \in { "+", "-" }
      s1       == IF signed THEN Tail(s0) ELSE s0
      int      == TakeDigits(s1)
      rest     == SubSeq(s1, Len(int) + 1, Len(s1))
      fraction == IF rest # << >> /\ Head(rest) = "." THEN TakeDigits(Tail(rest)) ELSE << >>
      absolute == DigitsToNat(int) * MILLI + FractionToMilli(fraction)
  IN  IF int = << >> /\ fraction = << >> THEN {}
      ELSE IF signed /\ Head(s0) = "-" THEN { 0 - absolute } ELSE { absolute }

\* value.replace(/\s/g, '')
RECURSIVE RemoveWhitespace(_)
RemoveWhitespace(t) ==
  IF t = << >> THEN << >>
  ELSE (IF Head(t) \in WhitespaceChars THEN << >> ELSE << Head(t) >>)
         \o RemoveWhitespace(Tail(t))

\* the piece of a text in front of the first separator c (the whole text if
\* there is none)
RECURSIVE PieceBefore(_, _)
PieceBefore(t, c) ==
  IF t = << >> \/ Head(t) = c THEN << >>
  ELSE << Head(t) >> \o PieceBefore(Tail(t), c)

\* the text behind the first separator c
PieceAfter(t, c) == SubSeq(t, Len(PieceBefore(t, c)) + 2, Len(t))

Includes(t, c) == \E i \in 1 .. Len(t) : t[i] = c

\* the number of thousandths parseChainage returns
parseChainage(value) ==
  IF value = << >> THEN { 0 }
  ELSE LET clean == RemoveWhitespace(value)
       IN  IF Includes(clean, "+")
           THEN LET km == PieceBefore(clean, "+")
                    m  == PieceBefore(PieceAfter(clean, "+"), "+")
                IN  Plus(Times(parseFloat(km), KM), parseFloat(m))
           ELSE parseFloat(clean)

\* mutant of KmOf: the kilometre is rounded to the nearest one
KmRounded(value) == (value + (KM * MILLI) \div 2) \div (KM * MILLI)

\* Math.floor(value / 1000) of a value that is not negative
KmOf(value) == value \div (KM * MILLI)

\* toFixed(2): the hundredths nearest to x.  A tie is decided by the binary
\* double x stands for, which lies a little above or below it: either
\* neighbour can be the result
ToFixed2(x) ==
  IF x % 10 = 5 THEN { x \div 10, x \div 10 + 1 }
  ELSE IF x % 10 < 5 THEN { x \div 10 } ELSE { x \div 10 + 1 }

\* the text toFixed(2) writes for a number of hundredths
Fixed2Text(hundredths) ==
  NatToText(hundredths \div 100)
    \o << ".", Digits[((hundredths \div 10) % 10) + 1], Digits[(hundredths % 10) + 1] >>

\* padStart(n, '0')
RECURSIVE PadStart(_, _)
PadStart(t, n) == IF Len(t) >= n THEN t ELSE PadStart(<< "0" >> \o t, n)

\* the texts formatChainage can return for a value that is not negative
formatChainage(value) ==
  LET km == KmOf(value)
      m  == value % (KM * MILLI)
  IN  { NatToText(km) \o << "+" >> \o PadStart(Fixed2Text(h), 6) : h \in ToFixed2(m) }

(***************************************************************************)
(* The capture layer (src/unnamed/part_001: DataEntry; src/App.tsx:        *)
(* handleSave, handleImport, onSnapshot).  In the records of the bulk      *)
(* paste and of the import, chainages and quantities are counts of         *)
(* thousandths; fromChainage, toChainage and actualQty are kept as {q} for *)
(* the number q and as {} for a value that is not a finite number (an      *)
(* imported record can carry anything).  The volumes of the range that a   *)
(* record also stores (surveyQty, grossConcreteQty, shotcreteDeduction,    *)
(* designedQty) are those of DataEntryCalc and of the save path below and  *)
(* are left out of these records.                                          *)
(***************************************************************************)
\* constants.ts is not among the sources: average poured volumes per metre
\* of the two earlier stages
AVG_ACTUAL_INVERT == 2

AVG_ACTUAL_KICKER == 1

\* the characters [\t,] of the separator pattern
SeparatorChars == { ",", "\t" }

\* the length of the separator /[\t,]+| {2,}/ a text starts with (0: none)
SeparatorLength(t) ==
  IF t = << >> THEN 0
  ELSE IF Head(t) \in SeparatorChars THEN Len(TakeWhile(t, SeparatorChars))
  ELSE IF Len(TakeWhile(t, { " " })) >= 2 THEN Len(TakeWhile(t, { " " }))
  ELSE 0

\* line.split(/[\t,]+| {2,}/): cur is the part collected so far
RECURSIVE SplitLine(_, _)
SplitLine(t, cur) ==
  IF t = << >> THEN << cur >>
  ELSE LET n == SeparatorLength(t)
       IN  IF n > 0 THEN << cur >> \o SplitLine(SubSeq(t, n + 1, Len(t)), << >>)
           ELSE SplitLine(Tail(t), Append(cur, Head(t)))

\* s.trim()
RECURSIVE Trim(_)
Trim(t) ==
  IF t # << >> /\ t[Len(t)] \in WhitespaceChars THEN Trim(SubSeq(t, 1, Len(t) - 1))
  ELSE TrimStart(t)

\* .map(s => s.trim()).filter(s => s)
RECURSIVE TrimmedParts(_)
TrimmedParts(ps) ==
  IF ps = << >> THEN << >>
  ELSE (IF Trim(Head(ps)) = << >> THEN << >> ELSE << Trim(Head(ps)) >>)
         \o TrimmedParts(Tail(ps))

\* the parts of one pasted line
LineParts(line) == TrimmedParts(SplitLine(line, << >>))

\* what the forEach body pushes for one line: nothing, or one entry
BulkEntry(line, bulkStep) ==
  LET parts == LineParts(line)
  IN  IF Len(parts) < 3 THEN << >>
      ELSE LET f       == parseChainage(parts[1])
               t       == parseChainage(parts[2])
               act     == parseFloat(parts[3])
               masonry == IF Len(parts) >= 4 THEN parseFloat(parts[4]) ELSE { 0 }
           IN  IF f = {} \/ t = {} \/ act = {} THEN << >>
               ELSE LET len         == Abs(Value(t) - Value(f))
                        masonryDec  == IF masonry = {} THEN 0 ELSE Value(masonry)
                        priorInvert == len * AVG_ACTUAL_INVERT
                        priorKicker == len * AVG_ACTUAL_KICKER
                        totalPrior  == priorInvert + priorKicker
                    IN  << [fromChainage        |-> f,
                            toChainage          |-> t,
                            step                |-> bulkStep,
                            actualQty           |-> act,
                            cumulativeActualQty |->
                              IF bulkStep = "Gantry" THEN Value(act) + totalPrior
                              ELSE Value(act),
                            priorInvertQty      |-> IF bulkStep = "Gantry" THEN priorInvert ELSE 0,
                            priorKickerQty      |-> IF bulkStep = "Gantry" THEN priorKicker ELSE 0,
                            hasMasonryDeduction |-> masonryDec > 0,
                            stoneMasonryQty     |-> masonryDec] >>

\* lines.forEach(...): newEntries
RECURSIVE BulkEntries(_, _)
BulkEntries(lines, bulkStep) ==
  IF lines = << >> THEN << >>
  ELSE BulkEntry(Head(lines), bulkStep) \o BulkEntries(Tail(lines), bulkStep)

\* setDoc(doc(db, "batches", id), record)
SetDoc(d, id, record) ==
  [k \in DOMAIN d \cup { id } |-> IF k = id THEN record ELSE d[k]]

\* deleteDoc(doc(db, "batches", id))
DeleteDoc(d, id) == [k \in DOMAIN d \ { id } |-> d[k]]

\* the entries of a snapshot: the documents with their ids, in the order of
\* the query (the documents of the model carry one and the same date; they
\* come in the order of their ids)
RECURSIVE Snapshot(_)
Snapshot(d) ==
  IF DOMAIN d = {} THEN << >>
  ELSE LET id == CHOOSE k \in DOMAIN d : \A j \in DOMAIN d : k <= j
       IN  << d[id] >> \o Snapshot(DeleteDoc(d, id))

\* processed: the records of handleSave for a save that is not an edit,
\* with ids from crypto.randomUUID (the first one is `first`)
ProcessedNew(newEntriesData, first) ==
  [k \in 1 .. Len(newEntriesData) |->
     [f \in DOMAIN newEntriesData[k] \cup { "id" } |->
        IF f = "id" THEN first + k - 1 ELSE newEntriesData[k][f]]]

\* the collection after the first n calls of setDoc of the loop
RECURSIVE WriteAll(_, _, _)
WriteAll(d, records, n) ==
  IF n = 0 THEN d
  ELSE SetDoc(WriteAll(d, records, n - 1), records[n].id, records[n])

(***************************************************************************)
(* The masonry deduction of an entry (src/components/Calculations.tsx:     *)
(* getExpectedBreakdown; src/components/Analysis.tsx: masonryAnalysis;     *)
(* src/unnamed/part_001: the prefill of the edit form).  Chainages and     *)
(* volumes are counts of thousandths; stoneMasonryQty is {} when the       *)
(* entry has no such field.                                                *)
(***************************************************************************)
\* DEFAULT_RATES.STONE_MASONRY_AREA, in square metres
STONE_MASONRY_AREA == 1

\* Number.prototype.toString of a number of thousandths
NumberToText(q) ==
  LET a  == IF q < 0 THEN 0 - q ELSE q
      f  == a % MILLI
      d1 == Digits[(f \div 100) + 1]
      d2 == Digits[((f \div 10) % 10) + 1]
      d3 == Digits[(f % 10) + 1]
  IN  (IF q < 0 THEN << "-" >> ELSE << >>)
        \o NatToText(a \div MILLI)
        \o (IF f = 0 THEN << >>
            ELSE IF f % 100 = 0 THEN << ".", d1 >>
            ELSE IF f % 10 = 0 THEN << ".", d1, d2 >>
            ELSE << ".", d1, d2, d3 >>)

\* Math.abs(entry.toChainage - entry.fromChainage)
MasonryLength(entry) ==
  IF entry.toChainage >= entry.fromChainage
  THEN entry.toChainage - entry.fromChainage
  ELSE entry.fromChainage - entry.toChainage

\* mutant of getExpectedBreakdownMasonry: the flag alone decides
masonryOfFlag(entry) ==
  IF entry.hasMasonryDeduction THEN STONE_MASONRY_AREA * MasonryLength(entry) ELSE 0

\* getExpectedBreakdown: the masonry deduction of the calculation inspector
getExpectedBreakdownMasonry(entry) ==
  IF entry.stoneMasonryQty # {} THEN Value(entry.stoneMasonryQty)
  ELSE IF entry.hasMasonryDeduction THEN STONE_MASONRY_AREA * MasonryLength(entry)
  ELSE 0

\* masonryAnalysis: what the entry adds to totalVolume
masonryAnalysisVolume(entry) ==
  LET vol == IF entry.stoneMasonryQty # {} THEN Value(entry.stoneMasonryQty)
             ELSE IF entry.hasMasonryDeduction
                  THEN MasonryLength(entry) * STONE_MASONRY_AREA
                  ELSE 0
  IN  IF vol > 0 THEN vol ELSE 0

\* the texts the edit form can be prefilled with for the masonry field
PrefillMasonry(entryToEdit) ==
  IF entryToEdit.stoneMasonryQty # {}
  THEN { NumberToText(Value(entryToEdit.stoneMasonryQty)) }
  ELSE IF entryToEdit.hasMasonryDeduction
       THEN { Fixed2Text(h) :
                h \in ToFixed2(MasonryLength(entryToEdit) * STONE_MASONRY_AREA) }
       ELSE { << >> }

\* calc.masonryDec of the form: parseFloat(formData.stoneMasonry) || 0
masonryDec(stoneMasonry) ==
  IF parseFloat(stoneMasonry) = {} THEN 0 ELSE Value(parseFloat(stoneMasonry))

(***************************************************************************)
(* The manual form and the save path (src/unnamed/part_001:                *)
(* handleManualSubmit; src/App.tsx: handleSave, handleEdit,                *)
(* handleTabChange, entryToEdit; src/unnamed/part_002: Dashboard).         *)
(* The fields of the manual form are number inputs: their texts are        *)
(* numerals.  The chainages of the form are whole metres, which is the     *)
(* grid of the design index; quantities are counts of thousandths.         *)
(***************************************************************************)
\* the tabs of the application
Tabs == { "dashboard", "entry", "analysis", "params", "calcs" }

\* mutant of designStep: the design volume is looked up with the logged step
designStepAsLogged(step) == step

\* data.step === ConcreteStep.GANTRY ? ConcreteStep.SUM : data.step
designStep(step) == IF step = "Gantry" THEN "Total Sum" ELSE step

\* the chainage on the metre grid that a parsed form field holds
GridChainage(parsed) == Value(parsed) \div MILLI

\* the entry handleManualSubmit hands to onSave
ManualEntry(formData) ==
  LET fromVal       == GridChainage(parseFloat(formData.fromChainage))
      toVal         == GridChainage(parseFloat(formData.toChainage))
      currentActual == Value(parseFloat(formData.actualQty))
      priorInvert   ==
        IF formData.step = "Gantry"
        THEN Value(parseFloat(IF formData.priorInvert = << >> THEN << "0" >>
                              ELSE formData.priorInvert))
        ELSE 0
      priorKicker   ==
        IF formData.step = "Gantry"
        THEN Value(parseFloat(IF formData.priorKicker = << >> THEN << "0" >>
                              ELSE formData.priorKicker))
        ELSE 0
      totalActual   == currentActual + priorInvert + priorKicker
  IN  [fromChainage        |-> fromVal,
       toChainage          |-> toVal,
       step                |-> formData.step,
       actualQty           |-> currentActual,
       cumulativeActualQty |->
         IF formData.step = "Gantry" THEN { totalActual } ELSE { currentActual },
       priorInvertQty      |-> priorInvert,
       priorKickerQty      |-> priorKicker]

\* one record of `processed` in handleSave
Processed(data, id) ==
  [id                  |-> id,
   fromChainage        |-> data.fromChainage,
   toChainage          |-> data.toChainage,
   step                |-> data.step,
   actualQty           |-> data.actualQty,
   cumulativeActualQty |-> data.cumulativeActualQty,
   priorInvertQty      |-> data.priorInvertQty,
   priorKickerQty      |-> data.priorKickerQty,
   designedQty         |->
     calculateDesignQty(data.fromChainage, data.toChainage, designStep(data.step))]

\* editingEntryId ? entries.find(e => e.id === editingEntryId) : undefined,
\* as the set of the entries found ({}: undefined)
EntryToEdit(editing, es) ==
  { es[i] : i \in { j \in 1 .. Len(es) : es[j].id \in editing } }

\* Dashboard: the design volume shown for an entry
displayDesign(entry) ==
  IF entry.step = "Gantry"
  THEN calculateDesignQty(entry.fromChainage, entry.toChainage, "Total Sum")
  ELSE entry.designedQty

(***************************************************************************)
(* Values of the state and the host's derived data.                        *)
(***************************************************************************)
NoDesign == [called |-> FALSE, a |-> 0, b |-> 0, c |-> 0, step |-> "Invert",
             whole |-> 0, left |-> 0, right |-> 0]

NoProfile == [called |-> FALSE, ch |-> 0, area |-> 0, isResurvey |-> FALSE]

\* chainages of survey points and of profile queries
SurveyChainages == 0 .. MaxSurveyCh

\* areas a re-survey point can carry
SurveyAreas == { 28 * AreaUnit, 36 * AreaUnit }

Point(ch, area) == [chainage |-> ch, area |-> area]

\* the original datasets the build can carry (constants.ts): ascending,
\* first point after the first query chainage and last point before the
\* last one, so that queries fall outside on both sides
ExcavationDatasets ==
  { << Point(1, 40 * AreaUnit), Point(MaxSurveyCh - 1, 32 * AreaUnit) >>,
    << Point(1, 32 * AreaUnit), Point(MaxSurveyCh - 1, 40 * AreaUnit) >>,
    << Point(1, 32 * AreaUnit), Point(3, 40 * AreaUnit),
       Point(MaxSurveyCh - 1, 34 * AreaUnit) >>,
    << Point(1, 40 * AreaUnit), Point(MaxSurveyCh - 1, 24 * AreaUnit) >> }

DefaultExcavation ==
  << Point(1, 40 * AreaUnit), Point(MaxSurveyCh - 1, 32 * AreaUnit) >>

\* design queries may run one unit past the end of the alignment
DesignChainages == 0 .. (TOTAL_TUNNEL_LENGTH + 1)

\* chainages an entry can be logged at
Chainages == 0 .. TOTAL_TUNNEL_LENGTH

NoVolume == [called |-> FALSE, from |-> 0, to |-> 0, gross |-> 0, shotcrete |-> 0]

NoCalc == [called |-> FALSE]

NoPrior == [called |-> FALSE, targetFrom |-> 0, targetTo |-> 0,
            stepToFind |-> "Invert", total |-> {0}, divisors |-> {}]

\* the value of `forecast` where the entries are not followed
NoForecast == [tracked |-> FALSE]

NoRange == [called |-> FALSE]

\* re-survey points of the volume computations: before the first original
\* point, between the original points, behind the last one; one of them
\* with an area below the finished inner area
VolumePoints ==
  { Point(0, 36 * AreaUnit), Point(3, 28 * AreaUnit), Point(3, 36 * AreaUnit),
    Point(MaxSurveyCh, 36 * AreaUnit) }

\* the lists of re-survey points a caller can pass, in every order
OverrideLists == UNION { [1 .. n -> VolumePoints] : n \in 0 .. MaxSurvey }

\* the parsed stone-masonry field: NaN (empty field), or a volume
MasonryInputs == { {}, { 100 * AreaUnit } }

\* the steps the entry form is used with
FormSteps == { "Gantry", "Invert" }

\* logged quantities are multiples of QtyUnit, which every entry length divides
QtyUnit == Factorial(TOTAL_TUNNEL_LENGTH)

Batch(from, to, step, actualQty, cumulativeActualQty) ==
  [fromChainage |-> from, toChainage |-> to, step |-> step,
   actualQty |-> actualQty, cumulativeActualQty |-> cumulativeActualQty]

\* ranges of historical entries: forward, reversed, of length zero
PriorRanges == { << 0, 2 >>, << TOTAL_TUNNEL_LENGTH, 1 >>, << 1, 1 >> }

PriorSteps == { "Invert", "Kicker" }

PriorQty(step) == IF step = "Invert" THEN 2 * QtyUnit ELSE 3 * QtyUnit

\* the historical entries of the prior-volume computations
PriorBatches ==
  { Batch(r[1], r[2], step, PriorQty(step), {}) : r \in PriorRanges, step \in PriorSteps }

\* ranges of Gantry entries: forward, reversed, of length zero, running
\* past the end of the alignment
GantryRanges ==
  { << 0, 2 >>, << TOTAL_TUNNEL_LENGTH, 1 >>, << 2, 2 >>,
    << 1, TOTAL_TUNNEL_LENGTH + 1 >> }

\* cumulative quantities of Gantry entries: not populated, moderate, large
GantryCumulative == { {}, { 40 }, { 400 } }

\* the entries of the forecast: Gantry entries, one Invert and one Kicker entry
ForecastBatches ==
  { Batch(r[1], r[2], "Gantry", 10, c) : r \in GantryRanges, c \in GantryCumulative }
    \cup { Batch(0, TOTAL_TUNNEL_LENGTH, "Invert", 50, { 50 }),
           Batch(1, 2, "Kicker", 20, {}) }

\* the entries of the reordered snapshots: Gantry entries of which one has
\* length zero and one starts where that one lies, one Invert and one Kicker
\* entry
SnapshotBatches ==
  { Batch(2, 2, "Gantry", 10, {}), Batch(2, TOTAL_TUNNEL_LENGTH, "Gantry", 10, { 40 }),
    Batch(0, 2, "Gantry", 10, { 400 }), Batch(TOTAL_TUNNEL_LENGTH, 1, "Gantry", 20, {}),
    Batch(0, TOTAL_TUNNEL_LENGTH, "Invert", 50, { 50 }), Batch(1, 2, "Kicker", 20, {}) }

\* the entry lists of the zero-length computations
RangeEntryLists == { << >> } \cup { << b >> : b \in PriorBatches }

\* the override lists of the zero-length computations
RangeOverrideLists ==
  { << >>, << Point(0, 36 * AreaUnit), Point(MaxSurveyCh, 28 * AreaUnit) >> }

NoMerged == [called |-> FALSE]

NoChainage == [called |-> FALSE]

\* the empty collection
NoDocs == << >>

NoBulk == [submitted |-> FALSE]

\* lines a user pastes: well-formed ones (plain and km+m chainages, a
\* fourth part, a separator with a blank), a quantity and a chainage with
\* trailing garbage, a chainage with two plus signs, a chainage that is no
\* number, a line with two parts
BulkLines ==
  { << "0", ",", "2", ",", "1", "0" >>,
    << "0", "+", "0", "0", "2", ",", "0", ",", "1", "0" >>,
    << "0", ",", " ", "1", ",", "1", "0", ",", "5" >>,
    << "0", ",", "2", ",", "1", "2", "a", "b", "c" >>,
    << "2", "a", ",", "0", ",", "1", "0" >>,
    << "1", "+", "2", "+", "3", ",", "0", ",", "1", "0" >>,
    << "a", "b", "c", ",", "2", ",", "1", "0" >>,
    << "0", ",", "2" >> }

\* bulkText.trim().split('\n'): one line or two
BulkTexts == UNION { [1 .. n -> BulkLines] : n \in 1 .. 2 }

\* the options of the step select of the bulk form
BulkSteps == { "Gantry", "Invert" }

\* a record of the store
Stored(id, from, to, step, actualQty) ==
  [id |-> id, fromChainage |-> from, toChainage |-> to, step |-> step,
   actualQty |-> actualQty,
   cumulativeActualQty |-> IF actualQty = {} THEN 0 ELSE Value(actualQty),
   priorInvertQty |-> 0, priorKickerQty |-> 0,
   hasMasonryDeduction |-> FALSE, stoneMasonryQty |-> 0]

\* the collection a bulk paste or an import meets: empty, or holding an
\* Invert entry of 12 m3 over the first two metres
InitialStores ==
  { NoDocs, SetDoc(NoDocs, 1, Stored(1, { 0 }, { 2 * MILLI }, "Invert", { 12 * MILLI })) }

\* records of an imported file: an exported entry, a record under the id of
\* a stored entry whose chainage is a text, a record whose quantity is
\* missing, a record without id (0)
ImportRecords ==
  { Stored(7, { 0 }, { MILLI }, "Kicker", { 3 * MILLI }),
    Stored(1, {}, { 2 * MILLI }, "Invert", { 12 * MILLI }),
    Stored(8, { 0 }, { MILLI }, "Gantry", {}),
    Stored(0, { 0 }, { MILLI }, "Gantry", { 5 * MILLI }) }

\* JSON.parse(...) that is an array: one record or two
ImportFiles == UNION { [1 .. n -> ImportRecords] : n \in 1 .. 2 }

NoSplit == [called |-> FALSE]

NoMasonry == [called |-> FALSE]

\* chainages that are formatted: whole metres, whole centimetres and
\* thousandths (of which some are ties of toFixed), in front of and behind a
\* kilometre mark, with one and with two kilometre digits
ChainageValues ==
  { km * KM * MILLI + m * MILLI + f :
      km \in { 0, 1, 12 }, m \in { 0, 7, 40, 999 },
      f \in { 0, 4, 5, 10, 70, 990, 995, 996, 999 } }

\* the entries whose masonry deduction is looked at: with and without the
\* explicit quantity (0 included), with and without the flag, over whole
\* and broken lengths, in both directions
MasonryQuantities == { {}, { 0 }, { 1125 }, { 2 * MILLI + 500 } }

MasonryChainages == { 0, MILLI, MILLI + 125, 2 * MILLI + 126 }

MasonryEntries ==
  [fromChainage : MasonryChainages, toChainage : MasonryChainages,
   hasMasonryDeduction : BOOLEAN, stoneMasonryQty : MasonryQuantities]

\* what a user has typed into the manual form when submitting it: a Gantry
\* entry with prior quantities, a reversed Invert entry
ManualForms ==
  { [fromChainage |-> << "0" >>, toChainage |-> << "2" >>, step |-> "Gantry",
     actualQty |-> << "1", "0" >>, priorInvert |-> << "4" >>,
     priorKicker |-> << "2", ".", "5" >>],
    [fromChainage |-> << "3" >>, toChainage |-> << "1" >>, step |-> "Invert",
     actualQty |-> << "6" >>, priorInvert |-> << >>, priorKicker |-> << >>] }

\* the files imported in the application: one older Gantry record, saved
\* with the design volume of the Gantry stage alone
AppImports ==
  { << [id |-> 9, fromChainage |-> 0, toChainage |-> 2, step |-> "Gantry",
        actualQty |-> 10 * MILLI, cumulativeActualQty |-> {},
        priorInvertQty |-> 0, priorKickerQty |-> 0,
        designedQty |-> calculateDesignQty(0, 2, "Gantry")] >> }

\* the capture layer before anything has happened in it
HostIdle ==
  /\ callerRanges = << >>
  /\ mergeCall = NoMerged
  /\ chainage = NoChainage
  /\ bulk = NoBulk
  /\ docs = NoDocs
  /\ activeTab = "dashboard"
  /\ editingEntryId = {}
  /\ pending = {}
  /\ uuid = 0
  /\ split = NoSplit
  /\ masonryView = NoMasonry

\* the interval objects a caller of mergeRanges can hold: normalized
IntervalObjects == { o \in [start : Chainages, end : Chainages] : o.start <= o.end }

\* the lists of interval objects a caller can pass, in every order
RangeLists == UNION { [1 .. n -> IntervalObjects] : n \in 0 .. MaxEntries }

\* the merged ranges and the union length of a snapshot of entries, as
\* App.forecast and App.totals derive them
Coverage(es) ==
  [merged      |-> mergeRanges(Intervals(es)),
   unionLength |-> calculateUnionLength(es)]

(***************************************************************************)
(* Design-volume specification: a caller computes the design volume of a   *)
(* range and of the two parts of a split of it.                            *)
(***************************************************************************)
InitDesign ==
  /\ design = NoDesign
  /\ entries = << >>
  /\ coverage = Coverage(<< >>)
  /\ EXCAVATION_DATA = DefaultExcavation
  /\ surveyOverrides = << >>
  /\ profile = NoProfile
  /\ volume = NoVolume
  /\ calc = NoCalc
  /\ prior = NoPrior
  /\ forecast = NoForecast
  /\ range = NoRange
  /\ HostIdle

CalcDesign(a, b, c, step) ==
  /\ a <= b /\ b <= c
  /\ design' = [called |-> TRUE, a |-> a, b |-> b, c |-> c, step |-> step,
                whole |-> calculateDesignQty(a, c, step),
                left  |-> calculateDesignQty(a, b, step),
                right |-> calculateDesignQty(b, c, step)]
  /\ UNCHANGED << entries, coverage, EXCAVATION_DATA, surveyOverrides, profile,
               volume, calc, prior, forecast, range, hostVars >>

NextDesign ==
  \E a, b, c \in DesignChainages : \E step \in ConcreteStep : CalcDesign(a, b, c, step)

SpecDesign == InitDesign /\ [][NextDesign]_vars

(***************************************************************************)
(* Coverage specification: entries are logged and deleted; after every     *)
(* change of `entries` the host recomputes the merged ranges and the union *)
(* length from the new snapshot.                                           *)
(***************************************************************************)
InitCoverage ==
  /\ design = NoDesign
  /\ entries = << >>
  /\ coverage = Coverage(<< >>)
  /\ EXCAVATION_DATA = DefaultExcavation
  /\ surveyOverrides = << >>
  /\ profile = NoProfile
  /\ volume = NoVolume
  /\ calc = NoCalc
  /\ prior = NoPrior
  /\ forecast = NoForecast
  /\ range = NoRange
  /\ HostIdle

\* a new entry reaches the snapshot
LogEntry(from, to) ==
  /\ Len(entries) < MaxEntries
  /\ entries' = Append(entries, [fromChainage |-> from, toChainage |-> to])
  /\ coverage' = Coverage(entries')
  /\ UNCHANGED << design, EXCAVATION_DATA, surveyOverrides, profile,
               volume, calc, prior, forecast, range, hostVars >>

\* an entry leaves the snapshot
DeleteEntry(i) ==
  /\ i \in 1 .. Len(entries)
  /\ entries' = SubSeq(entries, 1, i - 1) \o SubSeq(entries, i + 1, Len(entries))
  /\ coverage' = Coverage(entries')
  /\ UNCHANGED << design, EXCAVATION_DATA, surveyOverrides, profile,
               volume, calc, prior, forecast, range, hostVars >>

NextCoverage ==
  \/ \E from, to \in Chainages : LogEntry(from, to)
  \/ \E i \in 1 .. MaxEntries : DeleteEntry(i)

SpecCoverage == InitCoverage /\ [][NextCoverage]_vars

(***************************************************************************)
(* Profile specification: re-survey points are added and deleted, and the  *)
(* profile is queried at a chainage with the points held at that moment.   *)
(***************************************************************************)
InitProfile ==
  /\ design = NoDesign
  /\ entries = << >>
  /\ coverage = Coverage(<< >>)
  /\ EXCAVATION_DATA \in ExcavationDatasets
  /\ surveyOverrides = << >>
  /\ profile = NoProfile
  /\ volume = NoVolume
  /\ calc = NoCalc
  /\ prior = NoPrior
  /\ forecast = NoForecast
  /\ range = NoRange
  /\ HostIdle

\* a re-survey point is added behind the ones held (Parameters.handleSurveySubmit)
AddSurvey(ch, area) ==
  /\ Len(surveyOverrides) < MaxSurvey
  /\ surveyOverrides' = Append(surveyOverrides, Point(ch, area))
  /\ profile' = NoProfile
  /\ UNCHANGED << design, entries, coverage, EXCAVATION_DATA,
               volume, calc, prior, forecast, range, hostVars >>

\* a re-survey point is deleted (onDeleteSurvey)
DeleteSurvey(i) ==
  /\ i \in 1 .. Len(surveyOverrides)
  /\ surveyOverrides' = SubSeq(surveyOverrides, 1, i - 1)
                          \o SubSeq(surveyOverrides, i + 1, Len(surveyOverrides))
  /\ profile' = NoProfile
  /\ UNCHANGED << design, entries, coverage, EXCAVATION_DATA,
               volume, calc, prior, forecast, range, hostVars >>

\* getExcavationProfile(ch, surveyOverrides) is called
QueryProfile(ch) ==
  /\ LET r == getExcavationProfile(ch, surveyOverrides)
     IN  profile' = [called |-> TRUE, ch |-> ch, area |-> r.area,
                     isResurvey |-> r.isResurvey]
  /\ UNCHANGED << design, entries, coverage, EXCAVATION_DATA, surveyOverrides,
               volume, calc, prior, forecast, range, hostVars >>

NextProfile ==
  \/ \E ch \in SurveyChainages : \E area \in SurveyAreas : AddSurvey(ch, area)
  \/ \E i \in 1 .. MaxSurvey : DeleteSurvey(i)
  \/ \E ch \in SurveyChainages : QueryProfile(ch)

SpecProfile == InitProfile /\ [][NextProfile]_vars

(***************************************************************************)
(* Volume specification: with the original dataset of the build and a list *)
(* of re-survey points, a caller computes the expected volume of a range,  *)
(* or the entry form computes its `calc` memo.  The functions are pure, so *)
(* a behaviour makes one computation.                                      *)
(***************************************************************************)
InitVolume ==
  /\ design = NoDesign
  /\ entries = << >>
  /\ coverage = Coverage(<< >>)
  /\ EXCAVATION_DATA \in ExcavationDatasets
  /\ surveyOverrides \in OverrideLists
  /\ profile = NoProfile
  /\ volume = NoVolume
  /\ calc = NoCalc
  /\ prior = NoPrior
  /\ forecast = NoForecast
  /\ range = NoRange
  /\ HostIdle

\* calculateExpectedConcreteVolume(from, to, surveyOverrides) is called
CalcVolume(from, to) ==
  /\ ~volume.called /\ ~calc.called
  /\ LET r == calculateExpectedConcreteVolume(from, to, surveyOverrides)
     IN  volume' = [called |-> TRUE, from |-> from, to |-> to,
                    gross |-> r.gross, shotcrete |-> r.shotcrete]
  /\ UNCHANGED << design, entries, coverage, EXCAVATION_DATA, surveyOverrides,
                  profile, calc, prior, forecast, range, hostVars >>

\* the entry form holds fromVal, toVal, stoneMasonry and step: `calc` is computed
Capture(fromVal, toVal, stoneMasonry, step) ==
  /\ ~volume.called /\ ~calc.called
  /\ calc' = [called |-> TRUE, fromVal |-> fromVal, toVal |-> toVal,
              stoneMasonry |-> stoneMasonry, step |-> step,
              memo |-> DataEntryCalc(fromVal, toVal, stoneMasonry, step)]
  /\ UNCHANGED << design, entries, coverage, EXCAVATION_DATA, surveyOverrides,
                  profile, volume, prior, forecast, range, hostVars >>

NextVolume ==
  \/ \E from, to \in SurveyChainages : CalcVolume(from, to)
  \/ \E fromVal, toVal \in SurveyChainages :
       \E stoneMasonry \in MasonryInputs : \E step \in FormSteps :
         Capture(fromVal, toVal, stoneMasonry, step)

SpecVolume == InitVolume /\ [][NextVolume]_vars

(***************************************************************************)
(* Ledger actions: an entry reaches the snapshot of `entries` or leaves    *)
(* it; the host recomputes what it derives from the snapshot.              *)
(***************************************************************************)
\* handleSave / handleImport, then onSnapshot
SaveEntry(e) ==
  /\ Len(entries) < MaxEntries
  /\ entries' = Append(entries, e)
  /\ coverage' = Coverage(gantryEntries(entries'))
  /\ forecast' = Forecast(entries')
  /\ prior' = NoPrior
  /\ UNCHANGED << design, EXCAVATION_DATA, surveyOverrides, profile,
                  volume, calc, range, hostVars >>

\* deleteEntry, then onSnapshot
RemoveEntry(i) ==
  /\ i \in 1 .. Len(entries)
  /\ entries' = SubSeq(entries, 1, i - 1) \o SubSeq(entries, i + 1, Len(entries))
  /\ coverage' = Coverage(gantryEntries(entries'))
  /\ forecast' = Forecast(entries')
  /\ prior' = NoPrior
  /\ UNCHANGED << design, EXCAVATION_DATA, surveyOverrides, profile,
                  volume, calc, range, hostVars >>

(***************************************************************************)
(* Prior-volume specification: historical entries are saved and removed,   *)
(* and a caller apportions their quantities to a target range.             *)
(***************************************************************************)
InitPrior ==
  /\ design = NoDesign
  /\ entries = << >>
  /\ coverage = Coverage(<< >>)
  /\ EXCAVATION_DATA = DefaultExcavation
  /\ surveyOverrides = << >>
  /\ profile = NoProfile
  /\ volume = NoVolume
  /\ calc = NoCalc
  /\ prior = NoPrior
  /\ forecast = Forecast(<< >>)
  /\ range = NoRange
  /\ HostIdle

\* calculatePriorConcreteVolume(targetFrom, targetTo, stepToFind, entries) is called
CalcPrior(targetFrom, targetTo, stepToFind) ==
  /\ ~prior.called
  /\ LET r == calculatePriorConcreteVolume(targetFrom, targetTo, stepToFind, entries)
     IN  prior' = [called |-> TRUE, targetFrom |-> targetFrom, targetTo |-> targetTo,
                   stepToFind |-> stepToFind, total |-> r.total,
                   divisors |-> r.divisors]
  /\ UNCHANGED << design, entries, coverage, EXCAVATION_DATA, surveyOverrides,
                  profile, volume, calc, forecast, range, hostVars >>

NextPrior ==
  \/ \E e \in PriorBatches : SaveEntry(e)
  \/ \E i \in 1 .. MaxEntries : RemoveEntry(i)
  \/ \E targetFrom, targetTo \in Chainages :
       \E stepToFind \in ConcreteStep \ { "Total Sum" } :
         CalcPrior(targetFrom, targetTo, stepToFind)

SpecPrior == InitPrior /\ [][NextPrior]_vars

(***************************************************************************)
(* Forecast specification: entries are saved and removed; `forecast` is    *)
(* the ForecastSummary of the snapshot.                                    *)
(***************************************************************************)
InitForecast ==
  /\ design = NoDesign
  /\ entries = << >>
  /\ coverage = Coverage(<< >>)
  /\ EXCAVATION_DATA = DefaultExcavation
  /\ surveyOverrides = << >>
  /\ profile = NoProfile
  /\ volume = NoVolume
  /\ calc = NoCalc
  /\ prior = NoPrior
  /\ forecast = Forecast(<< >>)
  /\ range = NoRange
  /\ HostIdle

NextForecast ==
  \/ \E e \in ForecastBatches : SaveEntry(e)
  \/ \E i \in 1 .. MaxEntries : RemoveEntry(i)

SpecForecast == InitForecast /\ [][NextForecast]_vars

(***************************************************************************)
(* Snapshot specification: the forecast specification over entries whose   *)
(* order decides what mergeRanges returns.                                 *)
(***************************************************************************)
NextSnapshot ==
  \/ \E e \in SnapshotBatches : SaveEntry(e)
  \/ \E i \in 1 .. MaxEntries : RemoveEntry(i)

SpecSnapshot == InitForecast /\ [][NextSnapshot]_vars

(***************************************************************************)
(* Range specification: a caller computes the design volume, the expected  *)
(* volume and the prior volume of one and the same range.                  *)
(***************************************************************************)
InitRange ==
  /\ design = NoDesign
  /\ entries \in RangeEntryLists
  /\ coverage = Coverage(<< >>)
  /\ EXCAVATION_DATA \in ExcavationDatasets
  /\ surveyOverrides \in RangeOverrideLists
  /\ profile = NoProfile
  /\ volume = NoVolume
  /\ calc = NoCalc
  /\ prior = NoPrior
  /\ forecast = NoForecast
  /\ range = NoRange
  /\ HostIdle

CalcRange(from, to, step) ==
  /\ ~range.called
  /\ range' = [called |-> TRUE, from |-> from, to |-> to, step |-> step,
               design   |-> calculateDesignQty(from, to, step),
               expected |-> calculateExpectedConcreteVolume(from, to, surveyOverrides),
               prior    |-> calculatePriorConcreteVolume(from, to, step, entries)]
  /\ UNCHANGED << design, entries, coverage, EXCAVATION_DATA, surveyOverrides,
                  profile, volume, calc, prior, forecast, hostVars >>

NextRange ==
  \E from, to \in SurveyChainages : \E step \in ConcreteStep : CalcRange(from, to, step)

SpecRange == InitRange /\ [][NextRange]_vars

(***************************************************************************)
(* Chainage-text specification: a chainage is formatted and the text is    *)
(* parsed back.                                                            *)
(***************************************************************************)
InitChainage ==
  /\ design = NoDesign
  /\ entries = << >>
  /\ coverage = Coverage(<< >>)
  /\ EXCAVATION_DATA = DefaultExcavation
  /\ surveyOverrides = << >>
  /\ profile = NoProfile
  /\ volume = NoVolume
  /\ calc = NoCalc
  /\ prior = NoPrior
  /\ forecast = NoForecast
  /\ range = NoRange
  /\ HostIdle

\* parseChainage(formatChainage(value))
FormatAndParse(value) ==
  /\ ~chainage.called
  /\ \E text \in formatChainage(value) :
       chainage' = [called |-> TRUE, value |-> value, text |-> text,
                    parsed |-> parseChainage(text)]
  /\ UNCHANGED << design, entries, coverage, EXCAVATION_DATA, surveyOverrides,
                  profile, volume, calc, prior, forecast, range, callerRanges,
                  mergeCall, bulk, docs, activeTab, editingEntryId, pending, uuid,
                  split, masonryView >>

NextChainage == \E value \in ChainageValues : FormatAndParse(value)

SpecChainage == InitChainage /\ [][NextChainage]_vars

(***************************************************************************)
(* Bulk specification: on the entry tab a text is pasted and submitted, or *)
(* a file is imported; the records reach the store and the snapshot.       *)
(* `bulk` keeps what was pasted, the entries handed to onSave and the      *)
(* snapshot the component held at that moment.                             *)
(***************************************************************************)
InitBulk ==
  /\ design = NoDesign
  /\ docs \in InitialStores
  /\ entries = Snapshot(docs)
  /\ coverage = Coverage(<< >>)
  /\ EXCAVATION_DATA = DefaultExcavation
  /\ surveyOverrides = << >>
  /\ profile = NoProfile
  /\ volume = NoVolume
  /\ calc = NoCalc
  /\ prior = NoPrior
  /\ forecast = NoForecast
  /\ range = NoRange
  /\ callerRanges = << >>
  /\ mergeCall = NoMerged
  /\ chainage = NoChainage
  /\ \E text \in BulkTexts, step \in BulkSteps :
       bulk = [submitted |-> FALSE, bulkText |-> text, bulkStep |-> step,
               pasted |-> << >>, newEntries |-> << >>, snapshot |-> << >>,
               imported |-> << >>]
  /\ activeTab = "entry"
  /\ editingEntryId = {}
  /\ pending = {}
  /\ uuid = Len(entries)
  /\ split = NoSplit
  /\ masonryView = NoMasonry

\* handleBulkSubmit, handleSave(newEntries, false) and the snapshot of the
\* writes; the first n calls of setDoc succeed (n < Len(newEntries): the
\* next one throws and the catch block alerts)
handleBulkSubmit(n) ==
  LET newEntries == BulkEntries(bulk.bulkText, bulk.bulkStep)
      processed  == ProcessedNew(newEntries, uuid + 1)
  IN  /\ ~bulk.submitted
      /\ n \in 0 .. Len(newEntries)
      /\ IF Len(newEntries) > 0
         THEN /\ docs' = WriteAll(docs, processed, n)
              /\ entries' = Snapshot(docs')
              /\ uuid' = uuid + Len(newEntries)
              /\ activeTab' = IF n = Len(newEntries) THEN "dashboard" ELSE activeTab
              /\ bulk' = [bulk EXCEPT !.submitted = TRUE, !.bulkText = << >>,
                                      !.pasted = bulk.bulkText,
                                      !.newEntries = newEntries,
                                      !.snapshot = entries]
         ELSE /\ bulk' = [bulk EXCEPT !.submitted = TRUE, !.pasted = bulk.bulkText,
                                      !.snapshot = entries]
              /\ UNCHANGED << docs, entries, uuid, activeTab >>
      /\ UNCHANGED << design, coverage, EXCAVATION_DATA, surveyOverrides, profile,
                      volume, calc, prior, forecast, range, callerRanges, mergeCall,
                      chainage, editingEntryId, pending, split, masonryView >>

\* the number of records of an import that are written: up to the first
\* one without id, for which doc() throws
RECURSIVE Importable(_)
Importable(json) ==
  IF json = << >> \/ Head(json).id = 0 THEN 0 ELSE 1 + Importable(Tail(json))

\* handleImportFile with a file that parses to the array json, handleImport
\* and the snapshot of the writes; the user confirms or not; the first n
\* calls of setDoc succeed
handleImportFile(json, confirmed, n) ==
  /\ ~bulk.submitted
  /\ n \in 0 .. Importable(json)
  /\ bulk' = [bulk EXCEPT !.submitted = TRUE, !.imported = json]
  /\ IF confirmed
     THEN /\ docs' = WriteAll(docs, json, n)
          /\ entries' = Snapshot(docs')
          /\ activeTab' = IF n = Len(json) THEN "dashboard" ELSE activeTab
     ELSE n = 0 /\ UNCHANGED << docs, entries, activeTab >>
  /\ UNCHANGED << design, coverage, EXCAVATION_DATA, surveyOverrides, profile,
                  volume, calc, prior, forecast, range, callerRanges, mergeCall,
                  chainage, editingEntryId, pending, uuid, split, masonryView >>

NextBulk ==
  \/ \E n \in 0 .. 2 : handleBulkSubmit(n)
  \/ \E json \in ImportFiles, confirmed \in BOOLEAN, n \in 0 .. 2 :
       handleImportFile(json, confirmed, n)

SpecBulk == InitBulk /\ [][NextBulk]_vars

(***************************************************************************)
(* Application specification: the user opens entries for editing, changes  *)
(* tabs, submits the manual form and imports files; entries are deleted on *)
(* this or another client.  handleSave and handleImport are suspended at   *)
(* `await setDoc(...)`: `pending` holds the suspended call with what its   *)
(* closure captured, and other handlers run until the write settles.  The  *)
(* snapshot of a change of the collection arrives with the change.         *)
(***************************************************************************)
InitApp ==
  /\ design = NoDesign
  /\ entries = << >>
  /\ coverage = Coverage(<< >>)
  /\ EXCAVATION_DATA = DefaultExcavation
  /\ surveyOverrides = << >>
  /\ profile = NoProfile
  /\ volume = NoVolume
  /\ calc = NoCalc
  /\ prior = NoPrior
  /\ forecast = NoForecast
  /\ range = NoRange
  /\ HostIdle

\* handleEdit(entry), from a row of the dashboard
handleEdit(entry) ==
  /\ activeTab = "dashboard"
  /\ editingEntryId' = { entry.id }
  /\ activeTab' = "entry"
  /\ UNCHANGED << design, entries, coverage, EXCAVATION_DATA, surveyOverrides,
                  profile, volume, calc, prior, forecast, range, callerRanges,
                  mergeCall, chainage, bulk, docs, pending, uuid, split, masonryView >>

\* handleTabChange(tab), from the navigation bar
handleTabChange(tab) ==
  /\ editingEntryId' = IF tab # "entry" THEN {} ELSE editingEntryId
  /\ activeTab' = tab
  /\ UNCHANGED << design, entries, coverage, EXCAVATION_DATA, surveyOverrides,
                  profile, volume, calc, prior, forecast, range, callerRanges,
                  mergeCall, chainage, bulk, docs, pending, uuid, split, masonryView >>

\* handleManualSubmit and handleSave([entry], !!entryToEdit) up to its
\* await: the id is taken from editingEntryId or from crypto.randomUUID
handleManualSubmit(formData) ==
  LET entryToEdit == EntryToEdit(editingEntryId, entries)
      isEdit      == entryToEdit # {}
      fresh       == ~(isEdit /\ editingEntryId # {})
      id          == IF fresh THEN uuid + 1 ELSE Value(editingEntryId)
  IN  /\ activeTab = "entry"
      /\ pending = {}
      /\ fresh => uuid < MaxEntries
      /\ uuid' = IF fresh THEN uuid + 1 ELSE uuid
      /\ pending' = { [kind    |-> "save", isEdit |-> isEdit, editing |-> editingEntryId,
                       records |-> << Processed(ManualEntry(formData), id) >>] }
      /\ UNCHANGED << design, entries, coverage, EXCAVATION_DATA, surveyOverrides,
                      profile, volume, calc, prior, forecast, range, callerRanges,
                      mergeCall, chainage, bulk, docs, activeTab, editingEntryId,
                      split, masonryView >>

\* handleImportFile and handleImport(json) up to its await; the manage mode
\* is offered while no entry is being edited
handleImport(json) ==
  /\ activeTab = "entry"
  /\ EntryToEdit(editingEntryId, entries) = {}
  /\ pending = {}
  /\ pending' = { [kind    |-> "import", isEdit |-> FALSE, editing |-> editingEntryId,
                   records |-> json] }
  /\ UNCHANGED << design, entries, coverage, EXCAVATION_DATA, surveyOverrides,
                  profile, volume, calc, prior, forecast, range, callerRanges,
                  mergeCall, chainage, bulk, docs, activeTab, editingEntryId, uuid,
                  split, masonryView >>

\* the write of a suspended call settles and the call runs to its end:
\* setDoc has succeeded (the record is in the collection and in the
\* snapshot) or it has thrown (the catch block alerts)
Settle(p, succeeded) ==
  /\ p \in pending
  /\ pending' = pending \ { p }
  /\ IF succeeded
     THEN /\ docs' = WriteAll(docs, p.records, Len(p.records))
          /\ entries' = Snapshot(docs')
          /\ editingEntryId' = IF p.kind = "save" /\ p.isEdit THEN {} ELSE editingEntryId
          /\ activeTab' = "dashboard"
     ELSE UNCHANGED << docs, entries, editingEntryId, activeTab >>
  /\ UNCHANGED << design, coverage, EXCAVATION_DATA, surveyOverrides, profile,
                  volume, calc, prior, forecast, range, callerRanges, mergeCall,
                  chainage, bulk, uuid, split, masonryView >>

\* deleteEntry on this client or a delete on another one, then onSnapshot
deleteDoc(id) ==
  /\ id \in DOMAIN docs
  /\ docs' = DeleteDoc(docs, id)
  /\ entries' = Snapshot(docs')
  /\ UNCHANGED << design, coverage, EXCAVATION_DATA, surveyOverrides, profile,
                  volume, calc, prior, forecast, range, callerRanges, mergeCall,
                  chainage, bulk, activeTab, editingEntryId, pending, uuid, split,
                  masonryView >>

NextApp ==
  \/ \E i \in 1 .. MaxEntries + 1 : i <= Len(entries) /\ handleEdit(entries[i])
  \/ \E tab \in Tabs : handleTabChange(tab)
  \/ \E formData \in ManualForms : handleManualSubmit(formData)
  \/ \E json \in AppImports : handleImport(json)
  \/ \E p \in pending, succeeded \in BOOLEAN : Settle(p, succeeded)
  \/ \E id \in DOMAIN docs : deleteDoc(id)

SpecApp == InitApp /\ [][NextApp]_vars

(***************************************************************************)
(* Split specification: the volume of a range and the volumes of its two   *)
(* parts are computed from the same datasets.                              *)
(***************************************************************************)
InitSplit ==
  /\ design = NoDesign
  /\ entries = << >>
  /\ coverage = Coverage(<< >>)
  /\ EXCAVATION_DATA \in ExcavationDatasets
  /\ surveyOverrides \in OverrideLists
  /\ profile = NoProfile
  /\ volume = NoVolume
  /\ calc = NoCalc
  /\ prior = NoPrior
  /\ forecast = NoForecast
  /\ range = NoRange
  /\ HostIdle

\* calculateExpectedConcreteVolume over a..c, a..b and b..c
CalcSplit(a, b, c) ==
  /\ ~split.called
  /\ a <= b /\ b <= c
  /\ split' = [called |-> TRUE, a |-> a, b |-> b, c |-> c,
               whole |-> calculateExpectedConcreteVolume(a, c, surveyOverrides),
               left  |-> calculateExpectedConcreteVolume(a, b, surveyOverrides),
               right |-> calculateExpectedConcreteVolume(b, c, surveyOverrides)]
  /\ UNCHANGED << design, entries, coverage, EXCAVATION_DATA, surveyOverrides,
                  profile, volume, calc, prior, forecast, range, callerRanges,
                  mergeCall, chainage, bulk, docs, activeTab, editingEntryId,
                  pending, uuid, masonryView >>

NextSplit == \E a, b, c \in SurveyChainages : CalcSplit(a, b, c)

SpecSplit == InitSplit /\ [][NextSplit]_vars

(***************************************************************************)
(* Masonry specification: the three consumers look at one entry.           *)
(***************************************************************************)
InitMasonry ==
  /\ design = NoDesign
  /\ entries = << >>
  /\ coverage = Coverage(<< >>)
  /\ EXCAVATION_DATA = DefaultExcavation
  /\ surveyOverrides = << >>
  /\ profile = NoProfile
  /\ volume = NoVolume
  /\ calc = NoCalc
  /\ prior = NoPrior
  /\ forecast = NoForecast
  /\ range = NoRange
  /\ HostIdle

\* the inspector and the analysis render the entry and the entry is opened
\* in the edit form
ShowMasonry(entry) ==
  /\ ~masonryView.called
  /\ \E text \in PrefillMasonry(entry) :
       masonryView' = [called    |-> TRUE,
                       entry     |-> entry,
                       inspector |-> getExpectedBreakdownMasonry(entry),
                       analysis  |-> masonryAnalysisVolume(entry),
                       prefill   |-> text,
                       form      |-> masonryDec(text)]
  /\ UNCHANGED << design, entries, coverage, EXCAVATION_DATA, surveyOverrides,
                  profile, volume, calc, prior, forecast, range, callerRanges,
                  mergeCall, chainage, bulk, docs, activeTab, editingEntryId,
                  pending, uuid, split >>

NextMasonry == \E entry \in MasonryEntries : ShowMasonry(entry)

SpecMasonry == InitMasonry /\ [][NextMasonry]_vars

(***************************************************************************)
(* Merge specification: a caller holds a list of interval objects and      *)
(* passes it to mergeRanges; `callerRanges` is that list as the caller     *)
(* finds it after the call.                                                *)
(***************************************************************************)
InitMerge ==
  /\ design = NoDesign
  /\ entries = << >>
  /\ coverage = Coverage(<< >>)
  /\ EXCAVATION_DATA = DefaultExcavation
  /\ surveyOverrides = << >>
  /\ profile = NoProfile
  /\ volume = NoVolume
  /\ calc = NoCalc
  /\ prior = NoPrior
  /\ forecast = NoForecast
  /\ range = NoRange
  /\ callerRanges \in RangeLists
  /\ mergeCall = NoMerged
  /\ chainage = NoChainage
  /\ bulk = NoBulk
  /\ docs = NoDocs
  /\ activeTab = "dashboard"
  /\ editingEntryId = {}
  /\ pending = {}
  /\ uuid = 0
  /\ split = NoSplit
  /\ masonryView = NoMasonry

\* mergeRanges(ranges) is called: the result is returned and the writes of
\* `current.end = ...` have landed in the caller's objects
CallMergeRanges ==
  /\ ~mergeCall.called
  /\ mergeCall' = [called |-> TRUE, argument |-> callerRanges,
                   result |-> mergeRanges(callerRanges)]
  /\ callerRanges' = MergeRun(callerRanges).objs
  /\ UNCHANGED << design, entries, coverage, EXCAVATION_DATA, surveyOverrides,
                  profile, volume, calc, prior, forecast, range, chainage, bulk,
                  docs, activeTab, editingEntryId, pending, uuid, split, masonryView >>

NextMerge == CallMergeRanges

SpecMerge == InitMerge /\ [][NextMerge]_vars

\* a list in another order: position i holds the element p[i] of seq
Permuted(seq, p) == [i \in 1 .. Len(seq) |-> seq[p[i]]]

\* the elements of seq at the positions J, in order
RECURSIVE Selected(_, _, _)
Selected(seq, J, i) ==
  IF i > Len(seq) THEN << >>
  ELSE (IF i \in J THEN << seq[i] >> ELSE << >>) \o Selected(seq, J, i + 1)

\* the sum of the entries' own lengths
RECURSIVE SumEntryLengths(_)
SumEntryLengths(es) ==
  IF es = << >> THEN 0
  ELSE Abs(Head(es).toChainage - Head(es).fromChainage) + SumEntryLengths(Tail(es))

\* the unit cells [k, k+1] of the alignment that some entry's range contains
CoveredCells(es) ==
  { k \in 0 .. (TOTAL_TUNNEL_LENGTH - 1) :
      \E i \in 1 .. Len(es) :
        /\ Min(es[i].fromChainage, es[i].toChainage) <= k
        /\ k + 1 <= Max(es[i].fromChainage, es[i].toChainage) }

(***************************************************************************)
(* C1: design volume is additive over a split of the range, to within the  *)
(* rounding tolerance: for a <= b <= c and every step, the rounded volume  *)
(* of [a,c] differs from the sum of the rounded volumes of [a,b] and [b,c] *)
(* by at most 0.001.                                                       *)
(***************************************************************************)
DesignAdditive ==
  design.called =>
    Abs(design.whole - (design.left + design.right)) <= FINE_PER_MILLI

\* a split inside one segment of a range that reaches into the next rock
\* class, where the rounding makes the two sides differ by exactly the tolerance
DesignAdditiveWitness ==
  /\ design.called
  /\ design.a < design.b /\ design.b < design.c
  /\ design.b < INITIAL_CHAINAGE_MAP[1].to /\ design.c > INITIAL_CHAINAGE_MAP[1].to
  /\ design.left + design.right # design.whole
  /\ Abs(design.whole - (design.left + design.right)) = FINE_PER_MILLI

(***************************************************************************)
(* C2: mergeRanges is independent of the order of its input: every         *)
(* permutation of a list of normalized intervals (zero-length ones         *)
(* included) merges to the same list of intervals.                         *)
(***************************************************************************)
MergeOrderIndependent ==
  \A p \in Permutations(1 .. Len(entries)) :
    mergeRanges(Permuted(Intervals(entries), p)) = coverage.merged

(***************************************************************************)
(* C3: mergeRanges is idempotent: merging the merged list returns it       *)
(* unchanged.                                                              *)
(***************************************************************************)
MergeIdempotent ==
  mergeRanges(coverage.merged) = coverage.merged

\* a snapshot where a merge happened and the merged list still holds two
\* intervals with the same start (a zero-length one in front)
MergeIdempotentWitness ==
  /\ Len(coverage.merged) = 2
  /\ Len(entries) = 3
  /\ coverage.merged[1].start = coverage.merged[2].start
  /\ coverage.merged[2].end > coverage.merged[2].start

(***************************************************************************)
(* The merge described without the sweep: with s the intervals sorted by   *)
(* start, position k opens a new output interval exactly when s[k].start   *)
(* is not below the largest end among s[1..k-1] (for normalized intervals  *)
(* that is the running interval's end), and every output interval runs     *)
(* from the start of the position that opened it to the largest end of     *)
(* its group.                                                              *)
(***************************************************************************)
SortedIntervals(ranges) ==
  LET sorted == SortByStart(ranges, Len(ranges))
  IN  [k \in 1 .. Len(ranges) |-> ranges[sorted[k]]]

\* the largest end among s[lo..hi] (lo <= hi)
RECURSIVE MaxEnd(_, _, _)
MaxEnd(s, lo, hi) ==
  IF lo = hi THEN s[lo].end ELSE Max(s[lo].end, MaxEnd(s, lo + 1, hi))

\* the positions of s that open an output interval
Openers(s) ==
  { k \in 1 .. Len(s) : k = 1 \/ ~(s[k].start < MaxEnd(s, 1, k - 1)) }

\* the last position of the group that k opens
GroupLast(s, k) ==
  LET later == { j \in Openers(s) : j > k }
  IN  IF later = {} THEN Len(s)
      ELSE (CHOOSE j \in later : \A i \in later : j <= i) - 1

\* the output intervals of the openers from position k on, in order
RECURSIVE GroupsFrom(_, _)
GroupsFrom(s, k) ==
  IF k > Len(s) THEN << >>
  ELSE << [start |-> s[k].start, end |-> MaxEnd(s, k, GroupLast(s, k))] >>
         \o GroupsFrom(s, GroupLast(s, k) + 1)

(***************************************************************************)
(* C4: in the sweep over the intervals sorted by start, an interval is     *)
(* merged into the running interval exactly when its start is strictly     *)
(* less than the running interval's end; intervals that only touch stay    *)
(* separate; a merged interval's end is the maximum of the ends merged     *)
(* into it.                                                                *)
(***************************************************************************)
MergeCriterion ==
  coverage.merged = GroupsFrom(SortedIntervals(Intervals(entries)), 1)

\* three entries: two that only touch and stay separate, and one inside
\* another whose larger end survives the merge
MergeCriterionWitness ==
  /\ Len(entries) = 3
  /\ Len(coverage.merged) = 2
  /\ coverage.merged[1].end = coverage.merged[2].start
  /\ coverage.merged[1].start < coverage.merged[1].end
  /\ coverage.merged[2].start < coverage.merged[2].end
  /\ \E i, j \in 1 .. 3 :
       /\ i # j
       /\ EntryInterval(entries[i]).start < EntryInterval(entries[j]).start
       /\ EntryInterval(entries[j]).end < EntryInterval(entries[i]).end

(***************************************************************************)
(* C5: calculateUnionLength never double-counts: it is the length of the   *)
(* set-union of the entries' normalized ranges, hence at most the sum of   *)
(* the entries' own lengths; [0,10] and [5,15] give 15, not 20 (on the     *)
(* model's grid: [0,2] and [1,3] give 3, not 4).                           *)
(***************************************************************************)
UnionLengthIsMeasure ==
  /\ coverage.unionLength = Cardinality(CoveredCells(entries))
  /\ coverage.unionLength <= SumEntryLengths(entries)

\* scenario D on the grid, one range logged backwards
UnionLengthWitness ==
  /\ entries = << [fromChainage |-> 0, toChainage |-> 2],
                  [fromChainage |-> 3, toChainage |-> 1] >>
  /\ coverage.unionLength = 3
  /\ SumEntryLengths(entries) = 4

(***************************************************************************)
(* C6: union monotonicity: the union length of a set of entries is at      *)
(* least the union length of each of its subsets.                          *)
(***************************************************************************)
UnionMonotone ==
  \A J \in SUBSET (1 .. Len(entries)) :
    calculateUnionLength(Selected(entries, J, 1)) <= coverage.unionLength

\* a proper subset with a strictly smaller union, and one with the same
\* union as the whole set
UnionMonotoneWitness ==
  /\ Len(entries) = 3
  /\ \E J \in SUBSET (1 .. 3) :
       /\ J # {} /\ J # 1 .. 3
       /\ calculateUnionLength(Selected(entries, J, 1)) < coverage.unionLength
  /\ \E J \in SUBSET (1 .. 3) :
       /\ Cardinality(J) = 2
       /\ calculateUnionLength(Selected(entries, J, 1)) = coverage.unionLength
  /\ coverage.unionLength > 0

(***************************************************************************)
(* Vocabulary of the profile claims.                                       *)
(***************************************************************************)
\* the points of dataset whose chainage is exactly ch
PointsAt(dataset, ch) ==
  { i \in 1 .. Len(dataset) : dataset[i].chainage = ch }

\* the first point of dataset within the tolerance of ch
FirstWithinTolerance(dataset, ch) ==
  LET near == { i \in 1 .. Len(dataset) : Abs(dataset[i].chainage - ch) < CH_TOL }
  IN  dataset[CHOOSE i \in near : \A j \in near : i <= j]

\* the smallest and the largest chainage of a non-empty list of points
MinChainage(dataset) ==
  CHOOSE c \in { dataset[i].chainage : i \in 1 .. Len(dataset) } :
    \A i \in 1 .. Len(dataset) : c <= dataset[i].chainage

MaxChainage(dataset) ==
  CHOOSE c \in { dataset[i].chainage : i \in 1 .. Len(dataset) } :
    \A i \in 1 .. Len(dataset) : c >= dataset[i].chainage

\* the override set can be interpolated at ch: at least two points, and ch
\* within their smallest and largest chainage
WithinOverrideSpan(ch, surveyPoints) ==
  /\ Len(surveyPoints) >= 2
  /\ MinChainage(surveyPoints) <= ch
  /\ ch <= MaxChainage(surveyPoints)

\* ascending by chainage
IsSorted(dataset) ==
  \A i \in 1 .. (Len(dataset) - 1) : dataset[i].chainage <= dataset[i + 1].chainage

(***************************************************************************)
(* C7, as claimed: at a chainage that exactly matches the chainage of a    *)
(* point of the original dataset or of an override point, the profile      *)
(* returns that point's stored area.                                       *)
(***************************************************************************)
ExactMatchReturnsStoredArea ==
  profile.called =>
    /\ \A i \in PointsAt(EXCAVATION_DATA, profile.ch) :
         profile.area = EXCAVATION_DATA[i].area
    /\ \A i \in PointsAt(surveyOverrides, profile.ch) :
         profile.area = surveyOverrides[i].area

(***************************************************************************)
(* C7, amended: at a chainage that exactly matches an override point, a    *)
(* result taken from the overrides (isResurvey) is the stored area of the  *)
(* first override point within the tolerance of that chainage; at a        *)
(* chainage that exactly matches an original point, a result taken from    *)
(* the original dataset (not isResurvey) is the stored area of the first   *)
(* original point within the tolerance.  The stored area is returned as    *)
(* it is, not interpolated.                                                *)
(***************************************************************************)
ExactMatchOfResolvingDataset ==
  profile.called =>
    /\ (profile.isResurvey /\ PointsAt(surveyOverrides, profile.ch) # {})
         => profile.area = FirstWithinTolerance(surveyOverrides, profile.ch).area
    /\ (~profile.isResurvey /\ PointsAt(EXCAVATION_DATA, profile.ch) # {})
         => profile.area = FirstWithinTolerance(EXCAVATION_DATA, profile.ch).area

\* the query hits an override point exactly, an earlier override point lies
\* within the tolerance, and the earlier point's different area is returned
ExactMatchWitness ==
  /\ profile.called /\ profile.isResurvey
  /\ Len(surveyOverrides) = 2
  /\ surveyOverrides[2].chainage = profile.ch
  /\ surveyOverrides[1].chainage = profile.ch - 1
  /\ surveyOverrides[1].area # surveyOverrides[2].area
  /\ profile.area = surveyOverrides[1].area

(***************************************************************************)
(* C8, as claimed: the result is a re-survey result exactly when there are *)
(* at least two override points and the chainage lies within their         *)
(* smallest and largest chainage; in every other case it is the result     *)
(* the original dataset alone gives.                                       *)
(***************************************************************************)
OverridePrecedence ==
  profile.called =>
    /\ profile.isResurvey <=> WithinOverrideSpan(profile.ch, surveyOverrides)
    /\ ~WithinOverrideSpan(profile.ch, surveyOverrides) =>
         LET alone == getExcavationProfile(profile.ch, << >>)
         IN  profile.area = alone.area /\ ~profile.isResurvey

\* the statement of C8 holds for every override list in ascending order:
\* it fails only where the order of the list matters (C9)
OverridePrecedenceWhenSorted ==
  IsSorted(surveyOverrides) => OverridePrecedence

\* no two points of dataset can answer the same exact match
WellSeparated(dataset) ==
  \A i, j \in 1 .. Len(dataset) :
    i # j => Abs(dataset[i].chainage - dataset[j].chainage) >= CH_TOL

(***************************************************************************)
(* C9, as claimed: every ordering of the same override points gives the    *)
(* same (area, isResurvey).  It is stated here for override points whose   *)
(* chainages lie at least the tolerance apart, so that no two of them can  *)
(* answer the same exact match: the claim fails even for those.            *)
(***************************************************************************)
OverrideOrderIndependent ==
  (profile.called /\ WellSeparated(surveyOverrides)) =>
    \A p \in Permutations(1 .. Len(surveyOverrides)) :
      LET r == getExcavationProfile(profile.ch, Permuted(surveyOverrides, p))
      IN  r.area = profile.area /\ r.isResurvey = profile.isResurvey

\* the override interpolation gives nothing at the queried chainage
NoApplicableOverride ==
  \/ Len(surveyOverrides) <= 1
  \/ interpolateFromSet(profile.ch, surveyOverrides) = {}

(***************************************************************************)
(* C10: with no applicable override, a chainage below the first original   *)
(* point yields the first point's area and a chainage above the last       *)
(* point yields the last point's area, with isResurvey false; the area     *)
(* returned is always a number.                                            *)
(***************************************************************************)
OutOfRangeClamps ==
  profile.called =>
    /\ profile.area \in Int
    /\ NoApplicableOverride =>
         /\ ~profile.isResurvey
         /\ profile.ch < EXCAVATION_DATA[1].chainage
              => profile.area = EXCAVATION_DATA[1].area
         /\ profile.ch > EXCAVATION_DATA[Len(EXCAVATION_DATA)].chainage
              => profile.area = EXCAVATION_DATA[Len(EXCAVATION_DATA)].area

\* two override points are held, the query lies above both and above the
\* last original point, and the last original point's area comes back
OutOfRangeWitness ==
  /\ profile.called
  /\ Len(surveyOverrides) = 2
  /\ profile.ch > MaxChainage(surveyOverrides)
  /\ profile.ch > EXCAVATION_DATA[Len(EXCAVATION_DATA)].chainage
  /\ EXCAVATION_DATA[Len(EXCAVATION_DATA)].area # EXCAVATION_DATA[1].area
  /\ ~profile.isResurvey
  /\ profile.area = EXCAVATION_DATA[Len(EXCAVATION_DATA)].area

(***************************************************************************)
(* Vocabulary of the claims about the expected volume.                     *)
(***************************************************************************)
\* the pairs of neighbouring breakpoints of a range
ConsecutivePairs(B) ==
  { pr \in B \X B : pr[1] < pr[2] /\ ~ \E c \in B : pr[1] < c /\ c < pr[2] }

\* the total length of the pairs in S of which not both ends resolve as
\* re-surveyed
RECURSIVE DeductedLength(_, _)
DeductedLength(S, surveyPoints) ==
  IF S = {} THEN 0
  ELSE LET pr   == CHOOSE x \in S : TRUE
           both == /\ getExcavationProfile(pr[1], surveyPoints).isResurvey
                   /\ getExcavationProfile(pr[2], surveyPoints).isResurvey
       IN  (IF both THEN 0 ELSE pr[2] - pr[1])
             + DeductedLength(S \ {pr}, surveyPoints)

\* the range of the last volume computation lies within the span of the
\* override points, of which there are at least two
RangeWithinOverrideSpan ==
  /\ WithinOverrideSpan(Min(volume.from, volume.to), surveyOverrides)
  /\ WithinOverrideSpan(Max(volume.from, volume.to), surveyOverrides)

(***************************************************************************)
(* C11: the shotcrete deduction is SHOTCRETE_DEDUCTION times the total     *)
(* length of the consecutive breakpoint segments of which not both ends    *)
(* resolve as re-surveyed; with no override points it is                   *)
(* SHOTCRETE_DEDUCTION x |to - from|, and for a range within the span of   *)
(* at least two override points it is 0.                                   *)
(***************************************************************************)
ShotcreteDeduction ==
  volume.called =>
    LET start == Min(volume.from, volume.to)
        end   == Max(volume.from, volume.to)
        B     == RelevantPoints(start, end, surveyOverrides)
    IN  /\ volume.shotcrete =
             DEFAULT_RATES.SHOTCRETE_DEDUCTION
               * DeductedLength(ConsecutivePairs(B), surveyOverrides)
        /\ Len(surveyOverrides) = 0 =>
             volume.shotcrete = DEFAULT_RATES.SHOTCRETE_DEDUCTION * (end - start)
        /\ RangeWithinOverrideSpan => volume.shotcrete = 0

\* the statement of C11 holds for every override list in ascending order:
\* it fails only where the order of the list matters (C9)
ShotcreteDeductionWhenSorted ==
  IsSorted(surveyOverrides) => ShotcreteDeduction

\* ch is the chainage of an original point or lies at least the tolerance
\* away from it, for every original point: the original profile at ch is
\* the interpolated one, not the area of a neighbouring point
Unsnapped(ch) ==
  \A k \in 1 .. Len(EXCAVATION_DATA) :
    \/ EXCAVATION_DATA[k].chainage = ch
    \/ Abs(EXCAVATION_DATA[k].chainage - ch) >= CH_TOL

(***************************************************************************)
(* C12, as claimed: a single override point is ignored: with exactly one   *)
(* override point the gross volume and the shotcrete deduction are those   *)
(* of the call with no override points.  It is stated here for ranges and  *)
(* override points at which the exact-match tolerance plays no part: the   *)
(* claim fails even for those.                                             *)
(***************************************************************************)
SingleOverrideIgnored ==
  (/\ volume.called
   /\ Len(surveyOverrides) = 1
   /\ Unsnapped(surveyOverrides[1].chainage)
   /\ Unsnapped(volume.from)
   /\ Unsnapped(volume.to)) =>
    LET alone == calculateExpectedConcreteVolume(volume.from, volume.to, << >>)
    IN  volume.gross = alone.gross /\ volume.shotcrete = alone.shotcrete

\* no original point lies below the finished inner area
OriginalAboveFinished ==
  \A k \in 1 .. Len(EXCAVATION_DATA) :
    EXCAVATION_DATA[k].area >= DEFAULT_RATES.FINISHED_INNER_AREA

\* the statement of C12 holds where the original profile never crosses the
\* finished inner area: there the fill is linear between the breakpoints
SingleOverrideIgnoredAboveFinished ==
  OriginalAboveFinished => SingleOverrideIgnored

\* a lone override point strictly inside the range, original profile above
\* the finished inner area: the case in which the statement of C12 holds
SingleOverrideIgnoredAboveFinishedWitness ==
  /\ volume.called
  /\ Len(surveyOverrides) = 1
  /\ OriginalAboveFinished
  /\ Unsnapped(surveyOverrides[1].chainage)
  /\ Unsnapped(volume.from)
  /\ Unsnapped(volume.to)
  /\ Min(volume.from, volume.to) < surveyOverrides[1].chainage
  /\ surveyOverrides[1].chainage < Max(volume.from, volume.to)

(***************************************************************************)
(* C13: volumes are never negative: the gross volume is at least 0 for     *)
(* every range and override list, and the net survey volume of the entry   *)
(* form is max(0, gross - shotcrete - masonry), so at least 0 even when    *)
(* the deductions exceed the gross.                                        *)
(***************************************************************************)
VolumesNeverNegative ==
  /\ volume.called => volume.gross >= 0
  /\ calc.called =>
       /\ calc.memo.gross >= 0
       /\ calc.memo.netSurvey >= 0
       /\ calc.fromVal # calc.toVal =>
            calc.memo.netSurvey =
              Max(0, calc.memo.gross - calc.memo.shotcreteDec - calc.memo.masonryDec)

\* the form holds a range with a positive gross volume and a masonry volume
\* larger than it: the net survey volume is 0
VolumesNeverNegativeWitness ==
  /\ calc.called
  /\ calc.fromVal # calc.toVal
  /\ calc.memo.gross > 0
  /\ calc.memo.masonryDec > 0
  /\ calc.memo.gross - calc.memo.shotcreteDec - calc.memo.masonryDec < 0
  /\ calc.memo.netSurvey = 0

(***************************************************************************)
(* Vocabulary of the claims about the prior volume.                        *)
(***************************************************************************)
EntryLength(e) == Abs(e.toChainage - e.fromChainage)

\* the length of the overlap of an entry's normalized range with the
\* normalized target range; not positive where they do not overlap
OverlapLength(e, targetFrom, targetTo) ==
  Min(Max(targetFrom, targetTo), Max(e.fromChainage, e.toChainage))
    - Max(Min(targetFrom, targetTo), Min(e.fromChainage, e.toChainage))

\* the positions of the entries of the step with a positive overlap
Contributing(es, targetFrom, targetTo, step) ==
  { i \in 1 .. Len(es) :
      es[i].step = step /\ OverlapLength(es[i], targetFrom, targetTo) > 0 }

\* the sum over the positions in I of (actualQty / entryLength) x overlapLength
RECURSIVE ApportionedSum(_, _, _, _)
ApportionedSum(es, I, targetFrom, targetTo) ==
  IF I = {} THEN 0
  ELSE LET i == CHOOSE x \in I : TRUE
       IN  (es[i].actualQty * OverlapLength(es[i], targetFrom, targetTo))
               \div EntryLength(es[i])
             + ApportionedSum(es, I \ {i}, targetFrom, targetTo)

(***************************************************************************)
(* C14: the prior volume is the sum, over exactly the entries of the       *)
(* requested step whose normalized range has a positive overlap with the   *)
(* target range, of (actualQty / entryLength) x overlapLength; entries of  *)
(* other steps and entries without positive overlap contribute nothing.    *)
(***************************************************************************)
PriorVolumeApportioned ==
  prior.called =>
    prior.total =
      { ApportionedSum(entries,
                       Contributing(entries, prior.targetFrom, prior.targetTo,
                                    prior.stepToFind),
                       prior.targetFrom, prior.targetTo) }

\* an entry of the requested step is overlapped in part, an entry of another
\* step overlaps the target too, and the result is the part of the first
PriorVolumeApportionedWitness ==
  /\ prior.called
  /\ \E i, j \in 1 .. Len(entries) :
       /\ entries[i].step = prior.stepToFind
       /\ OverlapLength(entries[i], prior.targetFrom, prior.targetTo) > 0
       /\ OverlapLength(entries[i], prior.targetFrom, prior.targetTo)
            < EntryLength(entries[i])
       /\ entries[j].step # prior.stepToFind
       /\ OverlapLength(entries[j], prior.targetFrom, prior.targetTo) > 0
       /\ Contributing(entries, prior.targetFrom, prior.targetTo,
                       prior.stepToFind) = {i}
       /\ prior.total = { (entries[i].actualQty
                            * OverlapLength(entries[i], prior.targetFrom, prior.targetTo))
                           \div EntryLength(entries[i]) }

\* the positions of the entries of positive length
PositiveLength(es) == { i \in 1 .. Len(es) : es[i].fromChainage # es[i].toChainage }

(***************************************************************************)
(* C15: zero-length historical entries are skipped, not faulted: no        *)
(* division by zero is made, the result is a finite number, and it is the  *)
(* result for the entry list without its zero-length entries.              *)
(***************************************************************************)
ZeroLengthEntriesSkipped ==
  prior.called =>
    /\ 0 \notin prior.divisors
    /\ prior.total # {}
    /\ prior.total =
         calculatePriorConcreteVolume(prior.targetFrom, prior.targetTo,
                                      prior.stepToFind,
                                      Selected(entries, PositiveLength(entries), 1)).total

\* a zero-length entry of the requested step lies strictly inside the
\* target range, and another entry contributes a volume
ZeroLengthEntriesSkippedWitness ==
  /\ prior.called
  /\ prior.total # {0}
  /\ \E i \in 1 .. Len(entries) :
       /\ entries[i].step = prior.stepToFind
       /\ entries[i].fromChainage = entries[i].toChainage
       /\ Min(prior.targetFrom, prior.targetTo) < entries[i].fromChainage
       /\ entries[i].fromChainage < Max(prior.targetFrom, prior.targetTo)

(***************************************************************************)
(* C16: zero-length ranges yield zero volume: for from = to the design     *)
(* volume is 0, the expected volume has gross 0 and shotcrete 0, and the   *)
(* prior volume is 0 with no division made, for every step, override list  *)
(* and entry list.                                                         *)
(***************************************************************************)
ZeroLengthRangeZeroVolume ==
  (range.called /\ range.from = range.to) =>
    /\ range.design = 0
    /\ range.expected = [gross |-> 0, shotcrete |-> 0]
    /\ range.prior.total = {0}
    /\ range.prior.divisors = {}

\* a zero-length range inside the alignment and inside both datasets, with
\* an entry of the step around it
ZeroLengthRangeWitness ==
  /\ range.called
  /\ range.from = range.to
  /\ range.from > 0 /\ range.from < TOTAL_TUNNEL_LENGTH
  /\ Len(surveyOverrides) >= 2
  /\ WithinOverrideSpan(range.from, surveyOverrides)
  /\ \E i \in 1 .. Len(entries) :
       /\ entries[i].step = range.step
       /\ Min(entries[i].fromChainage, entries[i].toChainage) < range.from
       /\ range.from < Max(entries[i].fromChainage, entries[i].toChainage)

(***************************************************************************)
(* Vocabulary of the claims about the forecast.                            *)
(***************************************************************************)
\* the positions of the Gantry entries
GantryPositions(es) == { i \in 1 .. Len(es) : es[i].step = "Gantry" }

\* the sum over the positions in I of the cumulative quantity, of the
\* entry's own quantity where no cumulative quantity is populated
RECURSIVE SumPopulatedCumulative(_, _)
SumPopulatedCumulative(es, I) ==
  IF I = {} THEN 0
  ELSE LET i == CHOOSE x \in I : TRUE
       IN  (IF es[i].cumulativeActualQty = {} THEN es[i].actualQty
            ELSE Value(es[i].cumulativeActualQty))
             + SumPopulatedCumulative(es, I \ {i})

\* the number of unit cells [k, k+1] that some Gantry entry's range contains
GantryMeasure(es) ==
  Cardinality({ k \in 0 .. TOTAL_TUNNEL_LENGTH :
                  \E i \in GantryPositions(es) :
                    /\ Min(es[i].fromChainage, es[i].toChainage) <= k
                    /\ k + 1 <= Max(es[i].fromChainage, es[i].toChainage) })

\* the fraction is a finite number
Finite(f) == f.d # 0

(***************************************************************************)
(* C17: rate clamp: with completedActual > 0 and completedDesign > 0 the   *)
(* forecast to complete lies between 0.8 x remainingDesign and             *)
(* 2.0 x remainingDesign, whatever the raw ratio.                          *)
(***************************************************************************)
RateClamped ==
  (forecast.completedActual > 0 /\ forecast.completedDesign > 0) =>
    /\ RatLe(Frac(8 * forecast.remainingDesign, 10), forecast.forecastToComplete)
    /\ RatLe(forecast.forecastToComplete, Frac(2 * forecast.remainingDesign, 1))

\* the raw ratio is 10 or more, design volume remains, and the forecast to
\* complete is twice the remaining design volume
RateClampedWitness ==
  /\ forecast.completedDesign > 0
  /\ forecast.completedActual >= 10 * forecast.completedDesign
  /\ forecast.remainingDesign > 0
  /\ RatEq(forecast.forecastToComplete, Frac(2 * forecast.remainingDesign, 1))

(***************************************************************************)
(* C18: with completedDesign = 0 the forecast uses the default rate:       *)
(* currentOverbreakRate = 1.05, forecastToComplete = remainingDesign x     *)
(* 1.05, and no field of the summary is NaN or Infinity.                   *)
(***************************************************************************)
DefaultRateWithoutDesign ==
  forecast.completedDesign = 0 =>
    /\ Finite(forecast.currentOverbreakRate)
    /\ RatEq(forecast.currentOverbreakRate, Frac(105, 100))
    /\ Finite(forecast.forecastToComplete)
    /\ RatEq(forecast.forecastToComplete, Frac(105 * forecast.remainingDesign, 100))
    /\ Finite(forecast.projectedGrandTotal)

\* entries are logged and quantities poured, but no design volume is covered
DefaultRateWitness ==
  /\ Len(entries) > 0
  /\ GantryPositions(entries) # {}
  /\ forecast.completedDesign = 0
  /\ forecast.completedActual > 0
  /\ forecast.remainingDesign > 0

(***************************************************************************)
(* C19: completedActual is the sum, over the Gantry entries only, of the   *)
(* cumulative quantity, of the entry's own quantity where no cumulative    *)
(* quantity is populated; Invert and Kicker entries never contribute, also *)
(* when the entries contain no Gantry entry.                               *)
(***************************************************************************)
CompletedActualGantryOnly ==
  forecast.completedActual =
    SumPopulatedCumulative(entries, GantryPositions(entries))

\* the statement of C19 holds whenever a Gantry entry is logged
CompletedActualWithGantry ==
  GantryPositions(entries) # {} => CompletedActualGantryOnly

(***************************************************************************)
(* C20: remainingDesign = max(0, totalProjectScope - completedDesign),     *)
(* remainingLength = max(0, TOTAL_TUNNEL_LENGTH - union length of the      *)
(* Gantry entries), both at least 0, and projectedGrandTotal =             *)
(* completedActual + forecastToComplete.                                   *)
(***************************************************************************)
ForecastInvariants ==
  /\ forecast.remainingDesign
       = Max(0, forecast.totalProjectScope - forecast.completedDesign)
  /\ forecast.remainingDesign >= 0
  /\ forecast.remainingLength
       = Max(0, TOTAL_TUNNEL_LENGTH - GantryMeasure(entries))
  /\ forecast.remainingLength >= 0
  /\ Finite(forecast.projectedGrandTotal)
  /\ RatEq(forecast.projectedGrandTotal,
           Frac(forecast.completedActual * forecast.forecastToComplete.d
                  + forecast.forecastToComplete.n,
                forecast.forecastToComplete.d))

\* the Gantry entries cover more than the length of the alignment, and the
\* remaining length is 0
ForecastInvariantsWitness ==
  /\ GantryMeasure(entries) > TOTAL_TUNNEL_LENGTH
  /\ forecast.remainingLength = 0
  /\ forecast.completedActual > 0

(***************************************************************************)
(* C21.  Engine functions do not modify their arguments: after             *)
(* mergeRanges(ranges) has returned, every interval object of the caller's *)
(* list still has the start and the end it had before the call.            *)
(***************************************************************************)
\* C21: after mergeRanges(ranges) the caller's list equals the list that
\* was passed, object by object
MergeLeavesArgument ==
  mergeCall.called =>
    /\ Len(callerRanges) = Len(mergeCall.argument)
    /\ \A k \in 1 .. Len(callerRanges) :
         /\ callerRanges[k].start = mergeCall.argument[k].start
         /\ callerRanges[k].end = mergeCall.argument[k].end

(***************************************************************************)
(* C22.  Recomputation is idempotent and order-independent: the forecast   *)
(* and the totals of a snapshot are the same for every ordering of its     *)
(* entries, recomputing them gives the memoized values, and the forecast   *)
(* uses the totals of the same snapshot.                                   *)
(***************************************************************************)
\* the totals App.forecast reads (totals.actual, totals.progress)
Totals(es) == [actual |-> totalActualPoured(es), progress |-> progress(es)]

\* C22: for every ordering of the snapshot the ForecastSummary and the
\* totals equal the memoized ones, which are those of the snapshot itself
RecomputationOrderIndependent ==
  /\ forecast = Forecast(entries)
  /\ forecast.completedActual = Totals(entries).actual
  /\ forecast.remainingLength = RemainingLength(Totals(entries).progress)
  /\ \A p \in Permutations(1 .. Len(entries)) :
       /\ Forecast(Permuted(entries, p)) = forecast
       /\ Totals(Permuted(entries, p)) = Totals(entries)

\* a snapshot whose Gantry entries differ in their quantities and whose
\* merged ranges depend on the order (an interval of length zero shares its
\* start with another one)
RecomputationWitness ==
  /\ Len(entries) = MaxEntries
  /\ \E i, j \in GantryPositions(entries) :
       /\ CumulativeOrActual(entries[i]) # CumulativeOrActual(entries[j])
       /\ EntryInterval(entries[i]).start = EntryInterval(entries[j]).start
       /\ EntryLength(entries[i]) = 0
       /\ EntryLength(entries[j]) > 0
  /\ \E p \in Permutations(1 .. Len(entries)) :
       mergeRanges(Intervals(gantryEntries(Permuted(entries, p))))
         # mergeRanges(Intervals(gantryEntries(entries)))
  /\ forecast.completedDesign > 0

(***************************************************************************)
(* C23.  Chainage text round-trips: a whole number of metres comes back    *)
(* exactly, a whole number of centimetres comes back to two decimals.      *)
(***************************************************************************)
\* C23: parseChainage(formatChainage(v)) = v for every v >= 0 that is a whole
\* number of metres, and for every v >= 0 that is a whole number of
\* centimetres the parsed number is v to two decimals
ChainageRoundTrip ==
  chainage.called =>
    /\ (chainage.value % MILLI = 0 => chainage.parsed = { chainage.value })
    /\ (chainage.value % 10 = 0 =>
          /\ chainage.parsed # {}
          /\ 2 * Abs(Value(chainage.parsed) - chainage.value) < 10)

\* beyond a kilometre mark, with centimetres, the metres padded with zeros
ChainageRoundTripWitness ==
  /\ chainage.called
  /\ chainage.value = 12 * KM * MILLI + 7 * MILLI + 70
  /\ chainage.text = << "1", "2", "+", "0", "0", "7", ".", "0", "7" >>
  /\ chainage.parsed = { chainage.value }

(***************************************************************************)
(* C24.  Malformed external input never reaches the store: every entry     *)
(* handed to onSave comes from a line whose chainages and quantity are     *)
(* well-formed texts and carries the numbers they denote, and every stored *)
(* record has finite numeric chainages and a finite numeric quantity.      *)
(***************************************************************************)
\* a decimal numeral: digits, optionally a point and digits, nothing else
Numeral(t) ==
  LET int  == TakeDigits(t)
      rest == SubSeq(t, Len(int) + 1, Len(t))
  IN  /\ int # << >>
      /\ \/ rest = << >>
         \/ /\ Head(rest) = "."
            /\ Len(rest) > 1
            /\ TakeDigits(Tail(rest)) = Tail(rest)

\* a chainage text: a numeral, or kilometres + metres
ChainageText(t) ==
  \/ Numeral(t)
  \/ /\ Includes(t, "+")
     /\ TakeDigits(PieceBefore(t, "+")) = PieceBefore(t, "+")
     /\ PieceBefore(t, "+") # << >>
     /\ Numeral(PieceAfter(t, "+"))

\* the number a numeral denotes
DenotedNumber(t) ==
  DigitsToNat(TakeDigits(t)) * MILLI
    + FractionToMilli(SubSeq(t, Len(TakeDigits(t)) + 2, Len(t)))

\* the number a chainage text denotes
DenotedChainage(t) ==
  IF Numeral(t) THEN DenotedNumber(t)
  ELSE DigitsToNat(PieceBefore(t, "+")) * KM * MILLI
         + DenotedNumber(PieceAfter(t, "+"))

\* the line denotes the entry's chainages and quantity
Denotes(line, e) ==
  LET parts == LineParts(line)
  IN  /\ Len(parts) >= 3
      /\ ChainageText(parts[1]) /\ e.fromChainage = { DenotedChainage(parts[1]) }
      /\ ChainageText(parts[2]) /\ e.toChainage = { DenotedChainage(parts[2]) }
      /\ Numeral(parts[3]) /\ e.actualQty = { DenotedNumber(parts[3]) }

\* C24: every entry of a bulk paste that is handed to onSave is denoted by a
\* pasted line with well-formed chainages and quantity, and every record of
\* the store has finite numeric fromChainage, toChainage and actualQty
MalformedInputRejected ==
  /\ \A k \in 1 .. Len(bulk.newEntries) :
       \E i \in 1 .. Len(bulk.pasted) : Denotes(bulk.pasted[i], bulk.newEntries[k])
  /\ \A id \in DOMAIN docs :
       /\ docs[id].fromChainage # {}
       /\ docs[id].toChainage # {}
       /\ docs[id].actualQty # {}

(***************************************************************************)
(* C28.  The prior quantities stored with a Gantry batch are the volumes   *)
(* apportioned from the Invert and Kicker entries of the snapshot, and its *)
(* cumulative quantity is the sum of its own and the prior quantities; the *)
(* cumulative quantity of an Invert or Kicker batch is its own quantity.   *)
(***************************************************************************)
\* the entries of a snapshot as the engine reads them
RECURSIVE EngineEntries(_)
EngineEntries(es) ==
  IF es = << >> THEN << >>
  ELSE << Batch(Value(Head(es).fromChainage), Value(Head(es).toChainage), Head(es).step,
                Value(Head(es).actualQty), { Head(es).cumulativeActualQty }) >>
         \o EngineEntries(Tail(es))

\* calculatePriorConcreteVolume over the snapshot for the range of entry e
Apportioned(e, step, snapshot) ==
  calculatePriorConcreteVolume(Value(e.fromChainage), Value(e.toChainage), step,
                               EngineEntries(snapshot)).total

\* C28: every Gantry entry handed to onSave carries the prior quantities
\* apportioned from the snapshot's Invert and Kicker entries and the sum of
\* the three quantities as cumulative quantity; every other entry carries
\* its own quantity as cumulative quantity
PriorQuantitiesApportioned ==
  \A k \in 1 .. Len(bulk.newEntries) :
    LET e == bulk.newEntries[k]
    IN  IF e.step = "Gantry"
        THEN /\ { e.priorInvertQty } = Apportioned(e, "Invert", bulk.snapshot)
             /\ { e.priorKickerQty } = Apportioned(e, "Kicker", bulk.snapshot)
             /\ e.cumulativeActualQty
                  = Value(e.actualQty) + e.priorInvertQty + e.priorKickerQty
        ELSE e.cumulativeActualQty = Value(e.actualQty)

(***************************************************************************)
(* C25.  The design volume of a saved entry is that of the total profile   *)
(* for a Gantry entry and that of the entry's own step otherwise; no entry *)
(* is logged with the step SUM; the dashboard compares a Gantry entry with *)
(* the total profile as well.                                              *)
(***************************************************************************)
\* C25: every record handleSave writes has designedQty =
\* calculateDesignQty(from, to, S) with S = SUM for a Gantry entry and the
\* entry's step otherwise, its step is not SUM, and the design volume the
\* dashboard shows for a Gantry entry is that of the total profile
DesignOfTotalProfile ==
  /\ \A p \in pending :
       p.kind = "save" =>
         \A k \in 1 .. Len(p.records) :
           LET e == p.records[k]
           IN  /\ e.step # "Total Sum"
               /\ e.designedQty
                    = calculateDesignQty(e.fromChainage, e.toChainage,
                                         IF e.step = "Gantry" THEN "Total Sum" ELSE e.step)
  /\ \A i \in 1 .. Len(entries) :
       entries[i].step = "Gantry" =>
         displayDesign(entries[i])
           = calculateDesignQty(entries[i].fromChainage, entries[i].toChainage, "Total Sum")

\* a Gantry entry is being saved whose total-profile design volume is not
\* that of the Gantry stage
DesignOfTotalProfileWitness ==
  \E p \in pending :
    /\ p.kind = "save"
    /\ p.records[1].step = "Gantry"
    /\ p.records[1].designedQty > 0
    /\ p.records[1].designedQty
         # calculateDesignQty(p.records[1].fromChainage, p.records[1].toChainage, "Gantry")

(***************************************************************************)
(* C26.  Editing supersedes by identity: a save made while an entry is     *)
(* open for editing writes under the id of that entry; any other save gets *)
(* a fresh id.                                                             *)
(***************************************************************************)
\* C26: in every interleaving, a call of handleSave made while
\* editingEntryId names an entry writes its record under that id, and a call
\* made while no entry is being edited writes under an id that no stored
\* entry has
EditSupersedesByIdentity ==
  \A p \in pending :
    p.kind = "save" =>
      IF p.editing # {}
      THEN p.records[1].id \in p.editing
      ELSE p.records[1].id \notin DOMAIN docs

(***************************************************************************)
(* C30.  editingEntryId is set only while the entry tab is shown.          *)
(***************************************************************************)
\* C30: in every reachable state of the application, editingEntryId is
\* non-null only if activeTab is 'entry'
EditingOnlyOnEntryTab == editingEntryId # {} => activeTab = "entry"

(***************************************************************************)
(* C27.  The masonry deduction of an entry is the explicit quantity when   *)
(* the entry has one and the flag's default otherwise, for every consumer. *)
(***************************************************************************)
\* the deduction of the rule: stoneMasonryQty when present (0 included),
\* else STONE_MASONRY_AREA x length if hasMasonryDeduction, else 0
RuleDeduction(entry) ==
  IF entry.stoneMasonryQty # {} THEN Value(entry.stoneMasonryQty)
  ELSE IF entry.hasMasonryDeduction
       THEN STONE_MASONRY_AREA
              * (IF entry.toChainage >= entry.fromChainage
                 THEN entry.toChainage - entry.fromChainage
                 ELSE entry.fromChainage - entry.toChainage)
       ELSE 0

GrossAdditiveOverSplit ==
  (/\ split.called
   /\ surveyOverrides = << >>
   /\ Unsnapped(split.a) /\ Unsnapped(split.b) /\ Unsnapped(split.c))
    => split.whole.gross = split.left.gross + split.right.gross

\* the same where every original point lies at or above the finished inner
\* area, so that the fill does not cross zero between two breakpoints
GrossAdditiveWithoutCrossing ==
  OriginalAboveFinished => GrossAdditiveOverSplit

\* the shotcrete deduction of a split without override points is additive
ShotcreteAdditiveOverSplit ==
  (split.called /\ surveyOverrides = << >>)
    => split.whole.shotcrete = split.left.shotcrete + split.right.shotcrete

====
